---- MODULE Spec2Model ----
(***************************************************************************)
(* Dialog core of rsipstack: DialogInner (src/dialog/dialog.rs) and the    *)
(* INVITE factory of the dialog layer (src/dialog/invitation.rs).          *)
(*                                                                         *)
(* One dialog is shared (Arc<DialogInner>) by the tasks of Tasks.  Every   *)
(* method of DialogInner is split at the points where another task can    *)
(* interleave: each lock acquisition, each atomic operation and each      *)
(* .await is a step of its own.                                            *)
(***************************************************************************)
EXTENDS Integers, Sequences, FiniteSets, TLC

\* ------------------------------------------------------------------ bounds
Tasks == {"t1", "t2"}
MaxOps == 3        \* calls the tasks may start
MaxMsgs == 3       \* messages one transaction delivers to one do_request
initial_cseq == 1  \* CSeq of the initial INVITE of the dialog
MaxRoutes == 2     \* Record-Route headers of an initial INVITE
MaxHeaders == 3    \* headers of a request that is answered with make_response
MaxRegisters == 2  \* register calls on one Registration

\* A u32 is the pair <<high 16 bits, low 16 bits>>: 2^32 exceeds the integers
\* of the model checker.
Half == 65536
u32(n) == <<n \div Half, n % Half>>
\* AtomicU32::fetch_add(1) wraps around on overflow
wrapping_inc(x) ==
    IF x[2] + 1 < Half THEN <<x[1], x[2] + 1>> ELSE <<(x[1] + 1) % Half, 0>>
u32_lt(x, y) == x[1] < y[1] \/ (x[1] = y[1] /\ x[2] < y[2])

VARIABLES
    state,       \* DialogInner.state : Mutex<DialogState>
    local_seq,   \* DialogInner.local_seq : AtomicU32
    credential,  \* DialogInner.credential.is_some()
    chan,        \* states queued on state_sender (unbounded channel)
    chanClosed,  \* the DialogStateReceiver has been dropped
    writes,      \* history: persistent states in the order they were stored
    seqLog,      \* history: make_request's increment_local_seq calls, in fetch_add order
    task,        \* per task: position in the code and the locals of its call
    ops,         \* calls started so far
    dialogs,     \* DialogLayerInner.dialogs: the to_tags of the keys of this dialog
    id_to_tag,   \* DialogInner.id.to_tag ("" until learned)
    to_tag,      \* the tag of the stored To header, DialogInner.to
    seen,        \* the keys a reader of the registry found last
    role,        \* DialogInner.role : TransactionRole
    cancel_token,    \* DialogInner.cancel_token has been cancelled
    route_set,   \* DialogInner.route_set : Mutex<Vec<Route>>
    public_address,  \* DialogInner.public_address : Mutex<Option<SipAddr>>
    initial_request, \* the headers of DialogInner.initial_request
    local_contact,   \* DialogInner.local_contact.is_some()
    remote_seq,      \* DialogInner.remote_seq : AtomicU32
    registration,    \* a Registration: last_seq, credential, contact, public_address
    call,        \* the locals of the running Registration::register call
    registers,   \* history: the REGISTER requests sent, in order
    owner,       \* per Mutex of DialogInner: the task that holds its guard
    prog         \* per task: the lock and unlock steps its call has still to take

core == <<state, local_seq, credential, chan, chanClosed, writes, seqLog>>
reg == <<dialogs, id_to_tag, to_tag, seen>>
dlg == <<role, cancel_token, route_set, public_address, initial_request,
         local_contact, remote_seq>>
rgn == <<registration, call, registers>>
lk == <<owner, prog>>
vars == <<core, task, ops, reg, dlg, rgn, lk>>

\* the Mutex fields of DialogInner
Locks == {"id", "state", "to", "route_set", "public_address"}
NoOwner == "-"

\* ------------------------------------------------------------ DialogState
PersistentKinds == {"Calling", "Trying", "Early", "WaitAck", "Confirmed"}
TransientKinds == {"Updated", "Notify", "Info", "Options"}
TerminatedReasons == {"UacCancel", "UacBye", "UacBusy", "ProxyAuthRequired"}

St(k) == [k |-> k, r |-> "-"]
Terminated(r) == [k |-> "Terminated", r |-> r]
DialogState == {St(k) : k \in PersistentKinds \cup TransientKinds}
                 \cup {Terminated(r) : r \in TerminatedReasons}

IsTerminated(s) == s.k = "Terminated"
is_confirmed(s) == s.k = "Confirmed"

\* the arms of the match in transition that return before the store
IsTransientNoOptions(s) == s.k \in {"Updated", "Notify", "Info"}
IsTransient(s) == s.k \in {"Updated", "Notify", "Info", "Options"}

\* position of a persistent state on Calling -> Trying -> Early -> (WaitAck)
\* -> Confirmed -> Terminated
Rank(s) ==
    CASE s.k = "Calling" -> 0
      [] s.k = "Trying" -> 1
      [] s.k = "Early" -> 2
      [] s.k = "WaitAck" -> 3
      [] s.k = "Confirmed" -> 4
      [] s.k = "Terminated" -> 5

\* -------------------------------------------------------------- messages
Methods == {"BYE", "INFO"}
NoReq == [method |-> "-", cseq |-> u32(0)]
Request(m, c) == [method |-> m, cseq |-> c]

Trying == 100
Ringing == 180
SessionProgress == 183
OK == 200
Unauthorized == 401
ProxyAuthenticationRequired == 407
BusyHere == 486
Responses == {Trying, Ringing, SessionProgress, OK, Unauthorized,
              ProxyAuthenticationRequired, BusyHere}
NonResponse == 0     \* tx.receive() yields a SipMessage::Request
StreamEnd == 1       \* tx.receive() yields None
Messages == Responses \cup {NonResponse, StreamEnd}

\* --------------------------------------------------------------- headers
\* an rsip::Header: its variant and its value
Hd(k, v) == [kind |-> k, val |-> v]
IsRecordRoute(h) == h.kind = "RecordRoute"
IsRoute(h) == h.kind = "Route"
Roles == {"Client", "Server"}
NoAddr == "-"          \* Option<SipAddr>::None
\* tx.destination: Option<SipAddr>
NoDestination == [some |-> FALSE, addr |-> ""]
Resolved(a) == [some |-> TRUE, addr |-> a]
\* self.remote_uri
remote_uri == "peer-uri"

\* the headers of the INVITE that make_invite_request builds
ClientInvite ==
    <<Hd("Via", "local"), Hd("CallId", "call"), Hd("From", "caller"),
      Hd("To", "callee"), Hd("CSeq", "INVITE"), Hd("Contact", "local"),
      Hd("ContentType", "application/sdp")>>

\* ------------------------------------------------------- a task's locals
\*   pc        position in the code
\*   ret       where the running callee returns to
\*   arg       argument of the running transition call
\*   sends     sends attempted by the running transition call
\*   seq_val   value returned by increment_local_seq / get_local_seq
\*   req       request of the current transaction (tx.original)
\*   orig      request passed to do_request
\*   auth_sent local auth_sent of do_request
\*   msg       message last returned by tx.receive()
\*   nmsg      messages received by the running do_request
\*   nchal     401/407 received by the running do_request
\*   retries   authenticated retries sent by the running do_request
\*   tag       to_tag of the response being handled
\*   new_id    to_tag of the DialogId that process_invite returned
\*   result    return value of the last finished call
\*   custom    headers argument of make_request / make_response
\*   addr      addr argument of make_request
\*   body      body argument (is_some) of make_request / make_response
\*   request   headers of the request argument of make_response
\*   status    status argument of make_response
\*   headers   headers of the request or response that was built
\*   uri       Request-URI of the request that was built
\*   destination  tx.destination of the transaction of do_request
\*   locks     the locks of the dialog whose guard the task holds
NoLocals ==
    [pc |-> "idle", ret |-> "idle", arg |-> St("Calling"), sends |-> 0,
     seq_val |-> u32(0), req |-> NoReq, orig |-> NoReq, auth_sent |-> FALSE,
     msg |-> StreamEnd, nmsg |-> 0, nchal |-> 0, retries |-> 0,
     tag |-> "", new_id |-> "", result |-> "-",
     custom |-> <<>>, addr |-> NoAddr, body |-> FALSE, request |-> <<>>,
     status |-> OK, headers |-> <<>>, uri |-> "",
     destination |-> NoDestination, locks |-> {}]

\* ----------------------------------------------------------- Registration
\* Option<(IpAddr, u16)>, also used for the host and port of a Via
NoPublic == [some |-> FALSE, ip |-> "", port |-> ""]
Public(i, p) == [some |-> TRUE, ip |-> i, port |-> p]
\* Option<rsip::typed::Contact>: host and port of its URI, its expires
\* parameter (NoExpires when it has none)
NoExpires == -1
NoContact == [some |-> FALSE, ip |-> "", port |-> "", expires |-> NoExpires]
Contact(i, p, e) == [some |-> TRUE, ip |-> i, port |-> p, expires |-> e]
\* Registration::new(endpoint, credential), last_seq being the value
\* generate_random_cseq() gave
Registration_new(seq, cred) ==
    [last_seq |-> seq, credential |-> cred, contact |-> NoContact,
     public_address |-> NoPublic]
\* a REGISTER request: its CSeq, the host and port of its Contact and of its
\* Via, whether it carries an Authorization header
NoRegister ==
    [cseq |-> u32(0), contact |-> NoContact, via |-> NoPublic, auth |-> FALSE]
\* a message of the REGISTER transaction: the status of the response (or
\* NonResponse, StreamEnd), the parameters of its Via headers, the expires
\* parameter of its Contact
NoResponse == [status |-> StreamEnd, vias |-> <<>>, expires |-> NoExpires]
\* the locals of a register call
\*   pc        position in the code ("idle" when no call is running)
\*   auth_sent local auth_sent of register
\*   original  tx.original
\*   nsent     REGISTER requests sent by this call
\*   nmsg      messages received by this call
\*   result    result of the call that finished last
\*   resp      message last returned by tx.receive()
NoCall ==
    [pc |-> "idle", auth_sent |-> FALSE, original |-> NoRegister, nsent |-> 0,
     nmsg |-> 0, result |-> "-", resp |-> NoResponse]

InTransition(t) == task[t].pc \in {"tr_send", "tr_store"}
InDoRequest(t) ==
    \/ task[t].pc \in {"dr_recv", "dr_get_seq", "dr_retry", "dr_break"}
    \/ /\ task[t].pc \in {"tr_send", "tr_store", "inc_add", "inc_load"}
       /\ task[t].ret \in {"dr_recv", "dr_retry", "dr_break"}

Init ==
    /\ state = St("Calling")
    /\ local_seq = u32(initial_cseq)
    /\ credential \in BOOLEAN
    /\ chan = <<>>
    /\ chanClosed = FALSE
    /\ writes = <<>>
    /\ seqLog = <<>>
    /\ task = [t \in Tasks |-> NoLocals]
    /\ ops = 0
    /\ dialogs = {}
    /\ id_to_tag = ""
    /\ to_tag = ""
    /\ seen = {"unread"}
    /\ role = "Client"
    /\ cancel_token = FALSE
    /\ route_set = <<>>
    /\ public_address = NoAddr
    /\ initial_request = ClientInvite
    /\ local_contact = TRUE
    /\ remote_seq = u32(initial_cseq)
    /\ registration = Registration_new(u32(initial_cseq), credential)
    /\ call = NoCall
    /\ registers = <<>>
    /\ owner = [l \in Locks |-> NoOwner]
    /\ prog = [t \in Tasks |-> <<>>]

\* the headers of an initial INVITE that came in through the proxies rr, each
\* of which added one Record-Route header
Proxies == {"p1", "p2"}
RecordRouteLists ==
    {rr \in UNION {[1..n -> Proxies] : n \in 0..MaxRoutes} :
        \A i, j \in DOMAIN rr : rr[i] = rr[j] => i = j}
ServerInvite(rr) ==
    <<Hd("Via", "peer")>> \o [i \in 1..Len(rr) |-> Hd("RecordRoute", rr[i])]
      \o <<Hd("CallId", "call"), Hd("From", "caller"), Hd("To", "callee"),
           Hd("CSeq", "INVITE"), Hd("Contact", "peer")>>

\* the route set of a server dialog, with route_set.reverse() applied
RouteSetReversed(hs) ==
    LET rr == SelectSeq(hs, IsRecordRoute)
    IN  [i \in 1..Len(rr) |-> Hd("Route", rr[Len(rr) + 1 - i].val)]
\* for h in initial_request.headers: if let Header::RecordRoute(rr) = h
\* { route_set.push(Route::from(rr.value())) }
RouteSetOf(hs) ==
    LET rr == SelectSeq(hs, IsRecordRoute)
    IN  [i \in 1..Len(rr) |-> Hd("Route", rr[i].val)]

\* a value generate_random_cseq() may give the local_seq of a server dialog
RandomCSeqs == {u32(initial_cseq)}

\* DialogInner::new(TransactionRole::Server, ...) for an initial INVITE
InitServer ==
    /\ state = St("Calling")
    /\ local_seq \in RandomCSeqs
    /\ credential \in BOOLEAN
    /\ chan = <<>>
    /\ chanClosed = FALSE
    /\ writes = <<>>
    /\ seqLog = <<>>
    /\ task = [t \in Tasks |-> NoLocals]
    /\ ops = 0
    /\ dialogs = {}
    /\ id_to_tag = "local"
    /\ to_tag = "peer"
    /\ seen = {"unread"}
    /\ role = "Server"
    /\ cancel_token = FALSE
    /\ \E rr \in RecordRouteLists : initial_request = ServerInvite(rr)
    /\ route_set = RouteSetOf(initial_request)
    /\ public_address = NoAddr
    /\ local_contact \in BOOLEAN
    /\ remote_seq = u32(initial_cseq)
    /\ registration = Registration_new(u32(initial_cseq), credential)
    /\ call = NoCall
    /\ registers = <<>>
    /\ owner = [l \in Locks |-> NoOwner]
    /\ prog = [t \in Tasks |-> <<>>]

\* the locals of task t become l
Set(t, l) == task' = [task EXCEPT ![t] = l]

\* the outermost call of task t returns r: its locals are gone
Finished(t, r) == [NoLocals EXCEPT !.result = r]

\* the guard taken in the calling statement outlives the statement
ReturnedKeepingGuard(t, r) ==
    IF r = "Err" \/ task[t].ret = "idle"
      THEN Finished(t, r)
      ELSE [task[t] EXCEPT !.pc = task[t].ret, !.ret = "idle", !.sends = 0,
                           !.arg = NoLocals.arg]
\* transition returns r to its caller; an Err is propagated by the caller's `?`
Returned(t, r) ==
    IF r = "Err" \/ task[t].ret = "idle"
      THEN Finished(t, r)
      ELSE \* the temporaries of the calling statement are dropped
           [task[t] EXCEPT !.pc = task[t].ret, !.ret = "idle", !.sends = 0,
                           !.arg = NoLocals.arg, !.locks = {}]

\* self.id.lock() of task t does not block: no other task holds the guard
IdFree(t) == \A u \in Tasks \ {t} : "id" \notin task[u].locks

\* task t may start a call
MayStart(t) == task[t].pc = "idle" /\ ops < MaxOps

\* ------------------------------------------- DialogInner::transition
\* self.state_sender.send(state.clone()), an Err returned to the caller
transition_send_failing(t) ==
    /\ task[t].pc = "tr_send"
    /\ chan' = IF chanClosed THEN chan ELSE Append(chan, task[t].arg)
    /\ IF chanClosed
         THEN Set(t, Returned(t, "Err"))
         ELSE IF IsTransient(task[t].arg)
                THEN Set(t, Returned(t, "Ok"))
                ELSE Set(t, [task[t] EXCEPT !.pc = "tr_store", !.sends = @ + 1])
    /\ UNCHANGED <<lk, rgn, state, local_seq, credential, chanClosed, writes, seqLog, ops, reg, dlg>>

\* self.state_sender.send(state.clone()); an Err (closed channel) is ignored;
\* Updated, Notify, Info and Options return Ok(()) here
transition_send(t) ==
    /\ task[t].pc = "tr_send"
    /\ chan' = IF chanClosed THEN chan ELSE Append(chan, task[t].arg)
    /\ IF IsTransient(task[t].arg)
         THEN Set(t, Returned(t, "Ok"))
         ELSE Set(t, [task[t] EXCEPT !.pc = "tr_store", !.sends = @ + 1])
    /\ UNCHANGED <<lk, rgn, state, local_seq, credential, chanClosed, writes, seqLog, ops, reg, dlg>>

\* let mut old_state = self.state.lock().unwrap(); *old_state = state; Ok(())
transition_store(t) ==
    /\ task[t].pc = "tr_store"
    /\ state' = task[t].arg
    /\ writes' = Append(writes, task[t].arg)
    /\ Set(t, Returned(t, "Ok"))
    /\ UNCHANGED <<lk, rgn, local_seq, credential, chan, chanClosed, seqLog, ops, reg, dlg>>

\* ---------------------------------- DialogInner::increment_local_seq
\* the result of fetch_add, the value before the addition, is returned
increment_local_seq_returns_previous(t) ==
    /\ task[t].pc = "inc_add"
    /\ local_seq' = wrapping_inc(local_seq)
    /\ seqLog' = IF task[t].ret = "mr_build"
                   THEN Append(seqLog, [t |-> t, v |-> local_seq, done |-> TRUE])
                   ELSE seqLog
    /\ Set(t, [task[t] EXCEPT !.pc = task[t].ret, !.ret = "idle",
                              !.seq_val = local_seq])
    /\ UNCHANGED <<lk, rgn, state, credential, chan, chanClosed, writes, ops, reg, dlg>>

\* self.local_seq.fetch_add(1, Ordering::Relaxed)
increment_local_seq_add(t) ==
    /\ task[t].pc = "inc_add"
    /\ local_seq' = wrapping_inc(local_seq)
    /\ seqLog' = IF task[t].ret = "mr_build"
                   THEN Append(seqLog, [t |-> t, v |-> u32(0), done |-> FALSE])
                   ELSE seqLog
    /\ Set(t, [task[t] EXCEPT !.pc = "inc_load"])
    /\ UNCHANGED <<lk, rgn, state, credential, chan, chanClosed, writes, ops, reg, dlg>>

\* self.local_seq.load(Ordering::Relaxed)
increment_local_seq_load(t) ==
    /\ task[t].pc = "inc_load"
    /\ seqLog' = [i \in DOMAIN seqLog |->
                    IF task[t].ret = "mr_build" /\ seqLog[i].t = t /\ ~seqLog[i].done
                      THEN [t |-> t, v |-> local_seq, done |-> TRUE]
                      ELSE seqLog[i]]
    /\ Set(t, [task[t] EXCEPT !.pc = task[t].ret, !.ret = "idle",
                              !.seq_val = local_seq])
    /\ UNCHANGED <<lk, rgn, state, local_seq, credential, chan, chanClosed, writes, ops, reg, dlg>>

\* ------------------------------------- DialogInner::increment_remote_seq
\* self.remote_seq.fetch_add(1, Ordering::Relaxed)
increment_remote_seq_add(t) ==
    /\ task[t].pc = "irs_add"
    /\ remote_seq' = wrapping_inc(remote_seq)
    /\ Set(t, [task[t] EXCEPT !.pc = "irs_load"])
    /\ UNCHANGED <<lk, rgn, core, ops, reg, role, cancel_token, route_set,
                   public_address, initial_request, local_contact>>

\* self.remote_seq.load(Ordering::Relaxed)
increment_remote_seq_load(t) ==
    /\ task[t].pc = "irs_load"
    /\ Set(t, [task[t] EXCEPT !.pc = task[t].ret, !.ret = "idle",
                              !.seq_val = remote_seq])
    /\ UNCHANGED <<lk, rgn, core, ops, reg, dlg>>

\* ------------------------------------------ DialogInner::make_request
Addrs == {"pub1", "pub2"}
\* the stored public address comes before the address of the caller
ViaAddrStoredFirst(addr) ==
    IF public_address # NoAddr THEN public_address
    ELSE IF addr # NoAddr THEN addr ELSE "endpoint"
\* addr.or_else(|| self.public_address.lock().unwrap().clone()), else the
\* address of the endpoint
ViaAddr(addr) ==
    IF addr # NoAddr THEN addr
    ELSE IF public_address # NoAddr THEN public_address ELSE "endpoint"

\* the headers in the order make_request pushes them
RequestHeaders(custom, addr, method, body) ==
    custom
      \o <<Hd("Via", ViaAddr(addr)), Hd("CallId", "call"),
           Hd("From", IF role = "Client" THEN "caller" ELSE "callee"),
           Hd("To", to_tag), Hd("CSeq", method), Hd("UserAgent", "ua")>>
      \o (IF local_contact THEN <<Hd("Contact", "local")>> ELSE <<>>)
      \o route_set
      \o <<Hd("MaxForwards", "70")>>
      \o (IF body THEN <<Hd("ContentLength", "len")>> ELSE <<>>)

\* the routes are taken out of the route set while they are added
make_request_build_draining(t) ==
    /\ task[t].pc = "mr_build"
    /\ IdFree(t)
    /\ \E via \in BOOLEAN :
         IF via
           THEN Set(t, [task[t] EXCEPT
                          !.pc = "built",
                          !.req = Request(task[t].req.method, task[t].seq_val),
                          !.orig = Request(task[t].req.method, task[t].seq_val),
                          !.seq_val = u32(0),
                          !.uri = remote_uri,
                          !.headers = RequestHeaders(task[t].custom, task[t].addr,
                                                     task[t].req.method,
                                                     task[t].body)])
           ELSE Set(t, Finished(t, "Err"))
    /\ route_set' = <<>>
    /\ UNCHANGED <<lk, rgn, core, ops, reg, role, cancel_token, public_address,
                   initial_request, local_contact, remote_seq>>

\* the request built from the CSeq chosen in seq_val (caller-supplied, else
\* the value increment_local_seq returned); self.endpoint_inner.get_via(..)?
\* may fail; Ok(req) goes to the caller
make_request_build(t) ==
    /\ task[t].pc = "mr_build"
    /\ IdFree(t)
    /\ \E via \in BOOLEAN :
         IF via
           THEN Set(t, [task[t] EXCEPT
                          !.pc = "built",
                          !.req = Request(task[t].req.method, task[t].seq_val),
                          !.orig = Request(task[t].req.method, task[t].seq_val),
                          !.seq_val = u32(0),
                          !.uri = remote_uri,
                          !.headers = RequestHeaders(task[t].custom, task[t].addr,
                                                     task[t].req.method,
                                                     task[t].body)])
           ELSE Set(t, Finished(t, "Err"))
    /\ UNCHANGED <<lk, rgn, core, ops, reg, dlg>>

\* DialogInner::set_public_address: *self.public_address.lock().unwrap() =
\* Some(addr)
set_public_address(t, a) ==
    /\ MayStart(t)
    /\ ops' = ops + 1
    /\ public_address' = a
    /\ UNCHANGED <<lk, rgn, core, task, reg, role, cancel_token, route_set,
                   initial_request, local_contact, remote_seq>>

\* do_invite_with_public_address(opt, state_sender, Some(a)): the address is
\* stored in the new dialog before the dialog is registered or used
do_invite_with_public_address(a) ==
    /\ ops = 0
    /\ \A t \in Tasks : task[t].pc = "idle"
    /\ public_address = NoAddr
    /\ public_address' = a
    /\ UNCHANGED <<lk, rgn, core, task, ops, reg, role, cancel_token, route_set,
                   initial_request, local_contact, remote_seq>>

\* ------------------------------------------- inbound mid-dialog requests
\* the dialog's handler for an inbound request with CSeq c: a CSeq that is
\* not greater than remote_seq is rejected, any other is accepted and
\* remote_seq is advanced with increment_remote_seq
InboundMethods == {"BYE", "INFO"}
InboundCSeqs == {u32(n) : n \in 0..(initial_cseq + MaxOps)}
handle_inbound(t, m, c) ==
    /\ MayStart(t)
    /\ ops' = ops + 1
    /\ IF u32_lt(remote_seq, c)
         THEN Set(t, [NoLocals EXCEPT !.pc = "irs_add", !.ret = "in_reply",
                                      !.req = Request(m, c)])
         ELSE Set(t, Finished(t, "Rejected"))
    /\ UNCHANGED <<lk, rgn, core, reg, dlg>>

\* the handler replies 200 OK
inbound_reply(t) ==
    /\ task[t].pc = "in_reply"
    /\ Set(t, Finished(t, "Accepted"))
    /\ UNCHANGED <<lk, rgn, core, ops, reg, dlg>>

\* ----------------------------------------- DialogInner::make_response
\* Headers::unique_push: the headers of the same kind are removed, then the
\* header is pushed
unique_push(hs, h) ==
    LET Other(x) == x.kind # h.kind
    IN  Append(SelectSeq(hs, Other), h)

\* for header in headers { resp_headers.unique_push(header) }
RECURSIVE PushAll(_, _)
PushAll(hs, cs) ==
    IF cs = <<>> THEN hs ELSE PushAll(unique_push(hs, Head(cs)), Tail(cs))

\* the kinds of header that the match copies unchanged, Record-Route missing
CopiedKindsWithoutRecordRoute == {"Via", "From", "CSeq", "CallId"}
\* the kinds of header that the match copies unchanged
CopiedKinds == {"Via", "From", "CSeq", "CallId", "RecordRoute"}

\* one pass of the loop over request.headers: what the header h adds
Echo(h, status) ==
    IF h.kind \in CopiedKinds THEN <<h>>
    ELSE IF h.kind = "To"
      THEN IF h.val = "malformed" THEN <<>>      \* typed() fails: continue
           ELSE IF status # Trying /\ h.val = "untagged"
                  THEN <<Hd("To", id_to_tag)>>   \* the tag of the dialog id
                  ELSE <<h>>
      ELSE <<>>

RECURSIVE EchoAll(_, _)
EchoAll(hs, status) ==
    IF hs = <<>> THEN <<>>
    ELSE Echo(Head(hs), status) \o EchoAll(Tail(hs), status)

\* the headers of the response, in the order make_response produces them
ResponseHeaders(request, status, custom, body) ==
    LET copied == (IF local_contact THEN <<Hd("Contact", "local")>> ELSE <<>>)
                    \o EchoAll(request, status)
        pushed == PushAll(copied, custom)
        sized == IF body THEN Append(pushed, Hd("ContentLength", "len"))
                 ELSE pushed
    IN  unique_push(sized, Hd("UserAgent", "ua"))

\* make_response(request, status, headers, body): the response is built
make_response(t) ==
    /\ task[t].pc = "rs_build"
    /\ Set(t, [task[t] EXCEPT
                 !.pc = "responded",
                 !.headers = ResponseHeaders(task[t].request, task[t].status,
                                             task[t].custom, task[t].body)])
    /\ UNCHANGED <<lk, rgn, core, ops, reg, dlg>>

\* -------------------------------------------- DialogInner::do_request
\* auth_sent = true
SetAuthSentStuck(old) == old
SetAuthSent(old) == TRUE

\* the request handle_client_authenticate(new_seq, tx, resp, cred) rebuilds
AuthRequest(r, new_seq) == [r EXCEPT !.cseq = new_seq]

\* route.typed(): the value of a Route header parses unless it is malformed
TypedRoute(v) == v # "malformed"
\* route_uri.params.retain(|p| matches!(p, rsip::Param::Transport(_)))
retain_transport(u) ==
    CASE u = "p3;lr" -> "p3"
      [] u = "p3;transport=tcp;lr" -> "p3;transport=tcp"
      [] u = "p3;transport=tcp" -> "p3;transport=tcp"
      [] OTHER -> u
\* request.route_header(): the first Route header of the request
HasRoute(hs) == SelectSeq(hs, IsRoute) # <<>>
route_header(hs) == Head(SelectSeq(hs, IsRoute))
\* let (connection, destination) = if let Some(route) = route_header { ... }:
\* the resolved address when the first Route parses and the lookup finds it,
\* (None, None) in every other case
Destination(hs, found) ==
    IF HasRoute(hs) /\ TypedRoute(route_header(hs).val) /\ found
      THEN Resolved(retain_transport(route_header(hs).val))
      ELSE NoDestination

\* the lookup of the first Route; Transaction::new_client(key, request, ..,
\* connection); tx.destination = Some(dest) when there is one;
\* tx.send().await?; let mut auth_sent = false;
do_request_send(t) ==
    /\ task[t].pc = "built"
    /\ \E sent, found \in BOOLEAN :
         /\ (~HasRoute(task[t].headers) \/ ~TypedRoute(route_header(task[t].headers).val))
               => found
         /\ IF sent
              THEN Set(t, [task[t] EXCEPT
                             !.pc = "dr_recv", !.auth_sent = FALSE,
                             !.destination = Destination(task[t].headers, found)])
              ELSE Set(t, Finished(t, "Err"))
    /\ UNCHANGED <<lk, rgn, core, ops, reg, dlg>>

\* the locals l, calling self.transition(s) and coming back at label r
CallingTransition(l, s, r) ==
    [l EXCEPT !.pc = "tr_send", !.arg = s, !.sends = 0, !.ret = r]

\* a 100 is taken for the first sign of ringing
on_trying_early(l) == CallingTransition(l, St("Early"), "dr_recv")
\* StatusCode::Trying => { continue; }
on_trying(l) == l

\* while let Some(msg) = tx.receive().await { match msg { ... } }
do_request_receive(t) ==
    /\ task[t].pc = "dr_recv"
    /\ \E m \in Messages :
         /\ task[t].nmsg >= MaxMsgs => m = StreamEnd
         /\ m \in {Ringing, SessionProgress, ProxyAuthenticationRequired,
                   Unauthorized} => IdFree(t)
         /\ LET l == [task[t] EXCEPT !.msg = m,
                                     !.nmsg = IF m = StreamEnd THEN @ ELSE @ + 1]
            IN  CASE m \in {StreamEnd, NonResponse} ->
                       \* the loop ends: Ok(None)
                       Set(t, Finished(t, "OkNone"))
                  [] m = Trying ->
                       Set(t, on_trying(l))
                  [] m \in {Ringing, SessionProgress} ->
                       \* the guard of self.id.lock() is a temporary of the
                       \* statement that calls transition
                       Set(t, CallingTransition([l EXCEPT !.locks = {"id"}],
                                                St("Early"), "dr_recv"))
                  [] m \in {ProxyAuthenticationRequired, Unauthorized} ->
                       LET c == [l EXCEPT !.nchal = @ + 1] IN
                       IF c.auth_sent
                         THEN Set(t, CallingTransition(c,
                                       Terminated("ProxyAuthRequired"), "dr_break"))
                         ELSE LET a == [c EXCEPT
                                          !.auth_sent = SetAuthSent(c.auth_sent)]
                              IN  IF credential
                                    THEN Set(t, [a EXCEPT
                                           !.pc = IF a.orig.method = "CANCEL"
                                                    THEN "dr_get_seq" ELSE "inc_add",
                                           !.ret = "dr_retry"])
                                    ELSE \* no break here: the loop goes on
                                         Set(t, CallingTransition(a,
                                           Terminated("ProxyAuthRequired"), "dr_recv"))
                  [] OTHER ->
                       \* return Ok(Some(resp))
                       Set(t, Finished(t, "OkSome"))
    /\ UNCHANGED <<lk, rgn, core, ops, reg, dlg>>

\* rsip::Method::Cancel => self.get_local_seq()
do_request_get_seq(t) ==
    /\ task[t].pc = "dr_get_seq"
    /\ Set(t, [task[t] EXCEPT !.pc = "dr_retry", !.ret = "idle",
                              !.seq_val = local_seq])
    /\ UNCHANGED <<lk, rgn, core, ops, reg, dlg>>

\* tx = handle_client_authenticate(new_seq, tx, resp, cred).await?;
\* tx.send().await?; continue;
do_request_retry(t) ==
    /\ task[t].pc = "dr_retry"
    /\ \E sent \in BOOLEAN :
         IF sent
           THEN Set(t, [task[t] EXCEPT
                          !.pc = "dr_recv",
                          !.req = AuthRequest(task[t].req, task[t].seq_val),
                          !.seq_val = u32(0),
                          !.retries = @ + 1])
           ELSE Set(t, Finished(t, "Err"))
    /\ UNCHANGED <<lk, rgn, core, ops, reg, dlg>>

\* break; ... Ok(None)
do_request_break(t) ==
    /\ task[t].pc = "dr_break"
    /\ Set(t, Finished(t, "OkNone"))
    /\ UNCHANGED <<lk, rgn, core, ops, reg, dlg>>

\* ------------------------------------ DialogInner::update_remote_tag
\* self.id.lock().unwrap().to_tag = tag.to_string()
update_remote_tag_id(t) ==
    /\ task[t].pc = "urt_id"
    /\ IdFree(t)
    /\ id_to_tag' = task[t].tag
    /\ Set(t, [task[t] EXCEPT !.pc = "urt_to"])
    /\ UNCHANGED <<lk, rgn, core, ops, dialogs, to_tag, seen, dlg>>

\* *self.to.lock().unwrap() = to.typed()?.with_tag(tag).to_string(); Ok(())
update_remote_tag_to(t) ==
    /\ task[t].pc = "urt_to"
    /\ to_tag' = task[t].tag
    /\ Set(t, [task[t] EXCEPT !.pc = task[t].ret, !.ret = "idle", !.tag = ""])
    /\ UNCHANGED <<lk, rgn, core, ops, dialogs, id_to_tag, seen, dlg>>

\* ---------------------------- DialogLayer::do_invite_with_public_address
Tags == {"a", "b"}
Provisional == ""      \* to_tag of DialogId::try_from(&request)
InviteMessages == {Trying, Ringing, SessionProgress, OK, BusyHere, StreamEnd}

\* self.inner.dialogs.write().unwrap().insert(id.clone(), ...)
do_invite_insert(t) ==
    /\ task[t].pc = "di_insert"
    /\ dialogs' = dialogs \cup {Provisional}
    /\ Set(t, [task[t] EXCEPT !.pc = "pi_send"])
    /\ UNCHANGED <<lk, rgn, core, ops, id_to_tag, to_tag, seen, dlg>>

\* dialog.process_invite(tx).await: the INVITE is sent
process_invite_send(t) ==
    /\ task[t].pc = "pi_send"
    /\ \E sent \in BOOLEAN :
         Set(t, [task[t] EXCEPT !.pc = IF sent THEN "pi_recv" ELSE "di_err"])
    /\ UNCHANGED <<lk, rgn, core, ops, reg, dlg>>

\* the locals l, calling self.update_remote_tag(g) and coming back at label r
CallingUpdateRemoteTag(l, g, r) == [l EXCEPT !.pc = "urt_id", !.tag = g, !.ret = r]

\* dialog.process_invite(tx).await: a message of the INVITE transaction; the
\* to_tag g of the first response that carries one is installed
process_invite_receive(t) ==
    /\ task[t].pc = "pi_recv"
    /\ \E m \in InviteMessages, g \in Tags \cup {""} :
         /\ task[t].nmsg >= MaxMsgs => m = StreamEnd
         /\ m = OK => g # ""
         /\ m \in {Trying, StreamEnd} => g = ""
         /\ LET l == [task[t] EXCEPT !.msg = m,
                                     !.nmsg = IF m = StreamEnd THEN @ ELSE @ + 1]
                learns == g # "" /\ id_to_tag = ""
            IN  CASE m = StreamEnd ->
                       Set(t, [l EXCEPT !.pc = "di_remove", !.new_id = id_to_tag])
                  [] m = Trying ->
                       Set(t, CallingTransition(l, St("Trying"), "pi_recv"))
                  [] m \in {Ringing, SessionProgress} ->
                       IF learns
                         THEN Set(t, CallingUpdateRemoteTag(l, g, "pi_early"))
                         ELSE Set(t, CallingTransition(l, St("Early"), "pi_recv"))
                  [] m = OK ->
                       IF learns
                         THEN Set(t, CallingUpdateRemoteTag(l, g, "pi_confirm"))
                         ELSE Set(t, [l EXCEPT !.pc = "pi_confirm"])
                  [] OTHER ->
                       IF learns
                         THEN Set(t, CallingUpdateRemoteTag(l, g, "pi_fail"))
                         ELSE Set(t, [l EXCEPT !.pc = "pi_fail"])
    /\ UNCHANGED <<lk, rgn, core, ops, reg, dlg>>

\* dialog.process_invite(tx).await: Early after a 180/183 that brought the tag
process_invite_early(t) ==
    /\ task[t].pc = "pi_early"
    /\ Set(t, CallingTransition(task[t], St("Early"), "pi_recv"))
    /\ UNCHANGED <<lk, rgn, core, ops, reg, dlg>>

\* dialog.process_invite(tx).await: the 2xx is acknowledged, the dialog is
\* Confirmed and Ok((id, Some(resp))) is returned
process_invite_confirm(t) ==
    /\ task[t].pc = "pi_confirm"
    /\ Set(t, CallingTransition([task[t] EXCEPT !.new_id = id_to_tag],
                                St("Confirmed"), "di_remove"))
    /\ UNCHANGED <<lk, rgn, core, ops, reg, dlg>>

\* dialog.process_invite(tx).await: a failure response terminates the dialog
\* and Ok((id, Some(resp))) is returned
process_invite_fail(t) ==
    /\ task[t].pc = "pi_fail"
    /\ Set(t, CallingTransition([task[t] EXCEPT !.new_id = id_to_tag],
                                Terminated("UacBusy"), "di_remove"))
    /\ UNCHANGED <<lk, rgn, core, ops, reg, dlg>>

\* the provisional key is left in the registry
do_invite_remove_skipped(t) ==
    /\ task[t].pc = "di_remove"
    /\ Set(t, [task[t] EXCEPT !.pc = "di_reinsert"])
    /\ UNCHANGED <<lk, rgn, core, ops, reg, dlg>>

\* Ok(..) => self.inner.dialogs.write().unwrap().remove(&id)
do_invite_remove(t) ==
    /\ task[t].pc = "di_remove"
    /\ dialogs' = dialogs \ {Provisional}
    /\ Set(t, [task[t] EXCEPT !.pc = "di_reinsert"])
    /\ UNCHANGED <<lk, rgn, core, ops, id_to_tag, to_tag, seen, dlg>>

\* self.inner.dialogs.write().unwrap().insert(new_dialog_id, ...); return Ok
do_invite_reinsert(t) ==
    /\ task[t].pc = "di_reinsert"
    /\ dialogs' = dialogs \cup {task[t].new_id}
    /\ Set(t, Finished(t, "Ok"))
    /\ UNCHANGED <<lk, rgn, core, ops, id_to_tag, to_tag, seen, dlg>>

\* Err(e) => self.inner.dialogs.write().unwrap().remove(&id); return Err(e)
do_invite_remove_err(t) ==
    /\ task[t].pc = "di_err"
    /\ dialogs' = dialogs \ {Provisional}
    /\ Set(t, Finished(t, "Err"))
    /\ UNCHANGED <<lk, rgn, core, ops, id_to_tag, to_tag, seen, dlg>>

\* do_invite has registered the dialog and has not returned
InDoInvite(t) ==
    \/ task[t].pc \in {"pi_send", "pi_recv", "pi_early", "pi_confirm", "pi_fail",
                       "di_remove", "di_reinsert"}
    \/ /\ task[t].pc \in {"tr_send", "tr_store", "urt_id", "urt_to"}
       /\ task[t].ret \in {"pi_recv", "pi_early", "pi_confirm", "pi_fail",
                           "di_remove"}

\* ------------------------------------------------------------- callers
\* The users of the dialog (the client and server INVITE dialogs) follow the
\* order of the persistent states when they call transition, and report a
\* mid-dialog request only on a confirmed dialog.
CallerMayTransition(s) ==
    \/ s.k \in TransientKinds /\ is_confirmed(state)
    \/ /\ s.k \notin TransientKinds
       /\ ~IsTerminated(state)
       /\ Rank(s) >= Rank(state)
       /\ s.k # "Calling"

\* a user of the dialog calls transition(s)
CallTransition(t, s) ==
    /\ MayStart(t)
    /\ ops' = ops + 1
    /\ CallerMayTransition(s)
    /\ Set(t, CallingTransition(NoLocals, s, "idle"))
    /\ UNCHANGED <<lk, rgn, core, reg, dlg>>

\* a mid-dialog request: make_request(m, None, ...), then do_request
CallRequest(t, m) ==
    /\ MayStart(t)
    /\ ops' = ops + 1
    /\ ~IsTerminated(state)
    /\ Set(t, [NoLocals EXCEPT !.pc = "inc_add", !.ret = "mr_build",
                                 !.req = Request(m, u32(0))])
    /\ UNCHANGED <<lk, rgn, core, reg, dlg>>

\* cancel(): make_request(Cancel, Some(CSeq of the INVITE), ...), then do_request
CallCancel(t) ==
    /\ MayStart(t)
    /\ ops' = ops + 1
    /\ state.k \in {"Calling", "Trying", "Early"}
    /\ Set(t, [NoLocals EXCEPT !.pc = "mr_build",
                                 !.req = Request("CANCEL", u32(0)),
                                 !.seq_val = u32(initial_cseq)])
    /\ UNCHANGED <<lk, rgn, core, reg, dlg>>

\* the headers a caller passes to make_request or make_response
CustomHeaders ==
    {<<>>, <<Hd("ContentType", "application/sdp")>>, <<Hd("Route", "p3")>>,
     <<Hd("Contact", "other"), Hd("RecordRoute", "p3")>>}

\* a mid-dialog request with arguments: make_request(m, None, a, None, h, b),
\* then do_request or a direct send
CallRequestWith(t, m, h, a, b) ==
    /\ MayStart(t)
    /\ ops' = ops + 1
    /\ ~IsTerminated(state)
    /\ Set(t, [NoLocals EXCEPT !.pc = "inc_add", !.ret = "mr_build",
                                 !.req = Request(m, u32(0)),
                                 !.custom = h, !.addr = a, !.body = b])
    /\ UNCHANGED <<lk, rgn, core, reg, dlg>>

\* the requests of the peer that a server dialog answers
RequestHeaderSet ==
    {Hd("To", "untagged"), Hd("RecordRoute", "p1"), Hd("RecordRoute", "p2")}
Requests ==
    UNION {[1..n -> RequestHeaderSet] : n \in 0..MaxHeaders}
      \cup {<<Hd("Via", "peer"), Hd("RecordRoute", "p2"), Hd("To", "malformed"),
              Hd("RecordRoute", "p1"), Hd("MaxForwards", "70")>>,
            <<Hd("Via", "peer"), Hd("From", "caller"), Hd("To", "tagged"),
              Hd("CallId", "call"), Hd("CSeq", "BYE"), Hd("RecordRoute", "p1"),
              Hd("RecordRoute", "p1")>>}
Statuses == {Trying, Ringing, OK}

\* a server dialog answers the request rq: make_response(rq, st, h, b)
CallMakeResponse(t, rq, st, h, b) ==
    /\ MayStart(t)
    /\ ops' = ops + 1
    /\ Set(t, [NoLocals EXCEPT !.pc = "rs_build", !.request = rq, !.status = st,
                                 !.custom = h, !.body = b])
    /\ UNCHANGED <<lk, rgn, core, reg, dlg>>

\* the caller takes the response that make_response returned
TakeResponse(t) ==
    /\ task[t].pc = "responded"
    /\ Set(t, Finished(t, "Ok"))
    /\ UNCHANGED <<lk, rgn, core, ops, reg, dlg>>

\* the caller sends the built request itself instead of calling do_request
\* (as it does with an ACK)
SendDirect(t) ==
    /\ task[t].pc = "built"
    /\ Set(t, Finished(t, "Ok"))
    /\ UNCHANGED <<lk, rgn, core, ops, reg, dlg>>

\* a user of the dialog calls update_remote_tag(g) with the tag of a response
CallUpdateRemoteTag(t, g) ==
    /\ MayStart(t)
    /\ ops' = ops + 1
    /\ Set(t, CallingUpdateRemoteTag(NoLocals, g, "idle"))
    /\ UNCHANGED <<lk, rgn, core, reg, dlg>>

\* do_invite(opt, state_sender): the dialog has just been constructed
CallDoInvite(t) ==
    /\ MayStart(t)
    /\ ops = 0
    /\ ops' = ops + 1
    /\ Set(t, [NoLocals EXCEPT !.pc = "di_insert"])
    /\ UNCHANGED <<lk, rgn, core, reg, dlg>>

\* match_inbound: the registry has an entry under the DialogId with to_tag g
Lookup(g) == g \in dialogs

\* another task reads the registry (self.inner.dialogs.read()) while do_invite
\* is driving the INVITE or re-keying the dialog
ReadRegistry ==
    /\ \E t \in Tasks : InDoInvite(t)
    /\ seen' = dialogs
    /\ UNCHANGED <<lk, rgn, core, task, ops, dialogs, id_to_tag, to_tag, dlg>>

\* the application drops the DialogStateReceiver
DropReceiver ==
    /\ ~chanClosed
    /\ chanClosed' = TRUE
    /\ UNCHANGED <<lk, rgn, state, local_seq, credential, chan, writes, seqLog, task, ops,
                   reg, dlg>>

\* ------------------------------------------------------ Dialog::hangup
\* Dialog::ServerInvite(d) => d.bye(); Dialog::ClientInvite(d) =>
\* if d.inner.is_confirmed() { d.bye() } else { d.cancel() }
hangup(t) ==
    /\ MayStart(t)
    /\ ops' = ops + 1
    /\ Set(t, [NoLocals EXCEPT
                 !.pc = IF role = "Server" \/ is_confirmed(state)
                          THEN "hg_bye" ELSE "hg_cancel"])
    /\ UNCHANGED <<lk, rgn, core, reg, dlg>>

\* d.bye().await: make_request(Bye, None, ...), then do_request
hangup_bye(t) ==
    /\ task[t].pc = "hg_bye"
    /\ Set(t, [NoLocals EXCEPT !.pc = "inc_add", !.ret = "mr_build",
                                 !.req = Request("BYE", u32(0))])
    /\ UNCHANGED <<lk, rgn, core, ops, reg, dlg>>

\* d.cancel().await: make_request(Cancel, Some(CSeq of the INVITE), ...), then
\* do_request
hangup_cancel(t) ==
    /\ task[t].pc = "hg_cancel"
    /\ Set(t, [NoLocals EXCEPT !.pc = "mr_build",
                                 !.req = Request("CANCEL", u32(0)),
                                 !.seq_val = u32(initial_cseq)])
    /\ UNCHANGED <<lk, rgn, core, ops, reg, dlg>>

\* ---------------------------------------------------- Dialog::on_remove
\* the token is cancelled and the dialog is terminated as well
on_remove_terminating ==
    /\ cancel_token' = TRUE
    /\ state' = Terminated("UacCancel")
    /\ chan' = IF chanClosed THEN chan ELSE Append(chan, Terminated("UacCancel"))
    /\ writes' = Append(writes, Terminated("UacCancel"))
    /\ UNCHANGED <<lk, rgn, local_seq, credential, chanClosed, seqLog, task, ops, reg, role,
                   route_set, public_address, initial_request, local_contact, remote_seq>>

\* d.inner.cancel_token.cancel(), for either variant of Dialog
on_remove ==
    /\ cancel_token' = TRUE
    /\ UNCHANGED <<lk, rgn, core, task, ops, reg, role, route_set, public_address,
                   initial_request, local_contact, remote_seq>>

\* ------------------------------------------------------ specifications
\* one task at a time uses the dialog, every operation from start to end; the
\* application keeps its DialogStateReceiver
NextSeq ==
    \/ \E s \in DialogState : CallTransition("t1", s)
    \/ \E m \in Methods : CallRequest("t1", m)
    \/ CallCancel("t1")
    \/ transition_send("t1")
    \/ transition_store("t1")
    \/ increment_local_seq_add("t1")
    \/ increment_local_seq_load("t1")
    \/ make_request_build("t1")
    \/ do_request_send("t1")
    \/ do_request_receive("t1")
    \/ do_request_get_seq("t1")
    \/ do_request_retry("t1")
    \/ do_request_break("t1")
SpecSeq == Init /\ [][NextSeq]_vars

\* task t1 drives a mid-dialog request with do_request while the other tasks
\* build requests of their own on the same dialog
NextRetry ==
    \/ CallRequest("t1", "BYE")
    \/ \E t \in Tasks \ {"t1"} : CallRequest(t, "INFO")
    \/ \E t \in Tasks : increment_local_seq_add(t)
    \/ \E t \in Tasks : increment_local_seq_load(t)
    \/ \E t \in Tasks : make_request_build(t)
    \/ \E t \in Tasks \ {"t1"} : SendDirect(t)
    \/ do_request_send("t1")
    \/ do_request_receive("t1")
    \/ do_request_retry("t1")
    \/ do_request_break("t1")
    \/ transition_send("t1")
    \/ transition_store("t1")
SpecRetry == Init /\ [][NextRetry]_vars

\* a mid-dialog request driven by do_request while the dialog is removed from
\* the dialog layer
NextCancel ==
    \/ on_remove
    \/ \E m \in Methods : CallRequest("t1", m)
    \/ increment_local_seq_add("t1")
    \/ increment_local_seq_load("t1")
    \/ make_request_build("t1")
    \/ do_request_send("t1")
    \/ do_request_receive("t1")
    \/ do_request_retry("t1")
    \/ do_request_break("t1")
    \/ transition_send("t1")
    \/ transition_store("t1")
\* the steps of a task that wait for nothing but the scheduler: every step
\* except the one suspended in tx.receive(), which needs the transaction to
\* yield
Running(t) ==
    \/ increment_local_seq_add(t)
    \/ increment_local_seq_load(t)
    \/ make_request_build(t)
    \/ do_request_send(t)
    \/ do_request_retry(t)
    \/ do_request_break(t)
    \/ transition_send(t)
    \/ transition_store(t)
SpecCancel == Init /\ [][NextCancel]_vars /\ WF_vars(Running("t1"))

\* a client or a server dialog whose user follows the call and hangs up
InitHangup == Init \/ InitServer
NextHangup ==
    \/ \E s \in DialogState : CallTransition("t1", s)
    \/ hangup("t1")
    \/ hangup_bye("t1")
    \/ hangup_cancel("t1")
    \/ transition_send("t1")
    \/ transition_store("t1")
    \/ increment_local_seq_add("t1")
    \/ increment_local_seq_load("t1")
    \/ make_request_build("t1")
    \/ do_request_send("t1")
    \/ do_request_receive("t1")
    \/ do_request_get_seq("t1")
    \/ do_request_retry("t1")
    \/ do_request_break("t1")
SpecHangup == InitHangup /\ [][NextHangup]_vars

\* the tags of the responses of a forked INVITE reach update_remote_tag
NextTag ==
    \/ \E t \in Tasks, g \in Tags : CallUpdateRemoteTag(t, g)
    \/ \E t \in Tasks : update_remote_tag_id(t)
    \/ \E t \in Tasks : update_remote_tag_to(t)
SpecTag == Init /\ [][NextTag]_vars

\* a server dialog whose user sends mid-dialog requests, answers requests of
\* the peer, reports events, learns a tag and the public address
NextUas ==
    \/ \E h \in {<<>>, <<Hd("Route", "p3")>>} :
         CallRequestWith("t1", "INFO", h, NoAddr, FALSE)
    \/ CallTransition("t1", St("Confirmed"))
    \/ CallUpdateRemoteTag("t1", "a")
    \/ set_public_address("t1", "pub1")
    \/ CallMakeResponse("t1", ServerInvite(<<"p1", "p2">>), OK, <<>>, FALSE)
    \/ make_response("t1")
    \/ TakeResponse("t1")
    \/ increment_local_seq_add("t1")
    \/ increment_local_seq_load("t1")
    \/ make_request_build("t1")
    \/ SendDirect("t1")
    \/ do_request_send("t1")
    \/ do_request_receive("t1")
    \/ do_request_retry("t1")
    \/ do_request_break("t1")
    \/ transition_send("t1")
    \/ transition_store("t1")
    \/ update_remote_tag_id("t1")
    \/ update_remote_tag_to("t1")
InitUas == InitServer /\ local_contact /\ credential
SpecUas == InitUas /\ [][NextUas]_vars

\* a server dialog for an INVITE that came without proxies answers requests of
\* the peer
InitResponse == InitServer /\ ~credential /\ route_set = <<>>
NextResponse ==
    \/ \E rq \in Requests, st \in Statuses, h \in CustomHeaders, b \in BOOLEAN :
         CallMakeResponse("t1", rq, st, h, b)
    \/ make_response("t1")
    \/ TakeResponse("t1")
SpecResponse == InitResponse /\ [][NextResponse]_vars

\* concurrent tasks call transition on the shared dialog
NextTransition ==
    \/ DropReceiver
    \/ \E t \in Tasks, s \in DialogState : CallTransition(t, s)
    \/ \E t \in Tasks : transition_send(t)
    \/ \E t \in Tasks : transition_store(t)
SpecTransition == Init /\ [][NextTransition]_vars

\* concurrent tasks call make_request on the shared dialog
NextMakeRequest ==
    \/ \E t \in Tasks, m \in Methods : CallRequest(t, m)
    \/ \E t \in Tasks : CallCancel(t)
    \/ \E t \in Tasks : increment_local_seq_add(t)
    \/ \E t \in Tasks : increment_local_seq_load(t)
    \/ \E t \in Tasks : make_request_build(t)
    \/ \E t \in Tasks : SendDirect(t)
SpecMakeRequest == Init /\ [][NextMakeRequest]_vars

\* do_invite on a fresh dialog, next to a reader of the registry
NextInvite ==
    \/ ReadRegistry
    \/ \E t \in Tasks : CallDoInvite(t)
    \/ \E t \in Tasks : do_invite_insert(t)
    \/ \E t \in Tasks : process_invite_send(t)
    \/ \E t \in Tasks : process_invite_receive(t)
    \/ \E t \in Tasks : process_invite_early(t)
    \/ \E t \in Tasks : process_invite_confirm(t)
    \/ \E t \in Tasks : process_invite_fail(t)
    \/ \E t \in Tasks : update_remote_tag_id(t)
    \/ \E t \in Tasks : update_remote_tag_to(t)
    \/ \E t \in Tasks : transition_send(t)
    \/ \E t \in Tasks : transition_store(t)
    \/ \E t \in Tasks : do_invite_remove(t)
    \/ \E t \in Tasks : do_invite_reinsert(t)
    \/ \E t \in Tasks : do_invite_remove_err(t)
SpecInvite == Init /\ [][NextInvite]_vars

\* ---------------------------------------------------------------- claims
Challenges == {Unauthorized, ProxyAuthenticationRequired}
ProxyAuthRequired == Terminated("ProxyAuthRequired")
IsPersistentEvent(s) == s.k \notin TransientKinds
Published == SelectSeq(chan, IsPersistentEvent)
\* task t takes this step
StepOf(t) == task'[t] # task[t]

\* C1: once the stored state is Terminated, no step makes it a state other
\* than Terminated.
C1_TerminalAbsorbance == [][IsTerminated(state) => IsTerminated(state')]_vars

\* C2: the CSeq values that the make_request calls obtain are strictly
\* increasing in the order of their fetch_add on local_seq, so no two calls
\* obtain the same value.
C2_CSeqIncreasing ==
    \A i, j \in DOMAIN seqLog :
        (i < j /\ seqLog[i].done /\ seqLog[j].done)
            => u32_lt(seqLog[i].v, seqLog[j].v)

\* C3: a reader of the registry, at any moment between do_invite's first
\* insertion and its return, finds the dialog under exactly one key.
C3_RekeyAtomic == seen = {"unread"} \/ Cardinality(seen) = 1

\* C4: the stored state never moves backward on Calling -> Trying -> Early ->
\* (WaitAck) -> Confirmed -> Terminated.
C4_StateMovesForward == [][Rank(state') >= Rank(state)]_vars

\* C5: a transition call with Updated, Notify, Info or Options publishes the
\* event and returns Ok without touching the stored state, and the stored
\* state is never one of these events.
C5_TransientKeepsState ==
    /\ [](state.k \notin TransientKinds)
    /\ [][\A t \in Tasks :
            (InTransition(t) /\ task[t].arg.k \in TransientKinds /\ StepOf(t))
              => /\ state' = state
                 /\ writes' = writes
                 /\ chan' = IF chanClosed THEN chan ELSE Append(chan, task[t].arg)
                 /\ task'[t].pc = "idle"
                 /\ task'[t].result = "Ok"]_vars
C5_Witness ==
    /\ is_confirmed(state)
    /\ Len(chan) >= 2
    /\ chan[Len(chan)].k \in TransientKinds
    /\ chan[Len(chan) - 1].k \in TransientKinds
    /\ \A t \in Tasks : task[t].pc = "idle"

\* C6: when no transition call is in progress, the persistent states on the
\* channel are the stored states in the order they were stored, so the stored
\* state is the persistent state published last.
C6_EventOrder ==
    (~chanClosed /\ \A t \in Tasks : ~InTransition(t))
        => /\ Published = writes
           /\ Published # <<>> => state = Published[Len(Published)]

\* C7: a transition call attempts one send, at its first step; with the
\* channel closed it still returns Ok and, for a persistent state, stores it.
C7_BestEffortPublication ==
    [][\A t \in Tasks :
         (InTransition(t) /\ StepOf(t))
           => IF task[t].pc = "tr_send"
                THEN /\ chan' = IF chanClosed THEN chan
                                ELSE Append(chan, task[t].arg)
                     /\ state' = state
                     /\ IF task[t].arg.k \in TransientKinds
                          THEN task'[t].pc = "idle" /\ task'[t].result = "Ok"
                          ELSE task'[t].pc = "tr_store" /\ task'[t].sends = 1
                ELSE /\ chan' = chan
                     /\ task[t].sends = 1
                     /\ state' = task[t].arg
                     /\ task'[t].pc = "idle"
                     /\ task'[t].result = "Ok"]_vars
C7_Witness ==
    /\ chanClosed
    /\ Len(writes) > Len(Published)
    /\ state = writes[Len(writes)]
    /\ \E t \in Tasks : task[t].pc = "idle" /\ task[t].result = "Ok"

\* C8: one do_request call sends at most one authenticated retry; after a
\* second 401/407 it does nothing but transition to
\* Terminated(ProxyAuthRequired), break and return None.
AfterSecondChallenge(t) ==
    \/ /\ task[t].pc \in {"tr_send", "tr_store"}
       /\ task[t].arg = ProxyAuthRequired
       /\ task[t].ret = "dr_break"
    \/ /\ task[t].pc = "dr_break"
       /\ state = ProxyAuthRequired
C8_OneAuthenticatedRetry ==
    /\ [](\A t \in Tasks :
            /\ task[t].retries <= 1
            /\ task[t].nchal <= 2
            /\ task[t].nchal = 2 => AfterSecondChallenge(t))
    /\ [][\A t \in Tasks :
            (task[t].pc = "dr_break" /\ StepOf(t))
              => /\ task'[t].pc = "idle"
                 /\ task'[t].result = "OkNone"
                 /\ state' = state]_vars
C8_Witness ==
    /\ credential
    /\ task["t1"].pc = "dr_break"
    /\ task["t1"].nchal = 2
    /\ task["t1"].retries = 1
    /\ state = ProxyAuthRequired

\* C9: after a first 401/407 on a dialog without credential, do_request
\* handles no further message of the transaction.
C9_NoCredentialStops ==
    \A t \in Tasks :
        (~credential /\ task[t].nchal >= 1)
            => task[t].nchal = 1 /\ task[t].msg \in Challenges

\* C10: the transaction of a CANCEL, also after its authenticated retry,
\* carries the CSeq of the INVITE, and the steps of a CANCEL leave local_seq
\* alone.
C10_CancelKeepsCSeq ==
    /\ [](\A t \in Tasks :
            task[t].orig.method = "CANCEL"
                => task[t].req.cseq = u32(initial_cseq))
    /\ [][\A t \in Tasks :
            (task[t].req.method = "CANCEL" /\ StepOf(t))
                => local_seq' = local_seq]_vars

\* do_request of task t is about to send the authenticated retry of a request
\* other than CANCEL
RetryReady(t) == task[t].pc = "dr_retry" /\ task[t].orig.method # "CANCEL"

\* C11 (as stated): the authenticated retry of a challenged non-CANCEL request
\* carries the CSeq of the challenged request plus 1.
C11_RetryCSeqPlusOne ==
    \A t \in Tasks :
        RetryReady(t) => task[t].seq_val = wrapping_inc(task[t].req.cseq)

\* C11 (amended): the retry's increment advances local_seq by exactly 1 and the
\* retry carries the value of local_seq that increment_local_seq then loads; it
\* is greater than the CSeq of the challenged request, and is that CSeq plus 1
\* when no other request took a CSeq from the dialog since.
C11_RetryCSeqFromCounter ==
    /\ [](\A t \in Tasks :
            RetryReady(t)
              => /\ u32_lt(task[t].req.cseq, task[t].seq_val)
                 /\ local_seq = wrapping_inc(task[t].req.cseq)
                      => task[t].seq_val = local_seq)
    /\ [][\A t \in Tasks :
            (task[t].pc = "inc_add" /\ task[t].ret = "dr_retry" /\ StepOf(t))
              => local_seq' = wrapping_inc(local_seq)]_vars
    /\ [][\A t \in Tasks :
            (~RetryReady(t) /\ RetryReady(t)')
              => task'[t].seq_val = local_seq']_vars
    /\ [][\A t \in Tasks :
            (RetryReady(t) /\ task'[t].pc = "dr_recv")
              => /\ task'[t].req.cseq = task[t].seq_val
                 /\ local_seq' = local_seq]_vars
C11_Witness ==
    /\ task["t1"].pc = "dr_recv"
    /\ task["t1"].retries = 1
    /\ task["t1"].req.cseq = wrapping_inc(task["t1"].orig.cseq)
    /\ local_seq = task["t1"].req.cseq

\* C12: once the cancellation token is triggered, a do_request suspended in
\* tx.receive() returns, whether or not the transaction yields anything more.
C12_CancellationObserved ==
    (cancel_token /\ task["t1"].pc = "dr_recv") ~> (task["t1"].pc = "idle")

\* C13: on_remove triggers the cancellation token, leaves the stored state as
\* it is and publishes nothing on the state channel.
C13_CancellationKeepsState ==
    [][cancel_token' # cancel_token
         => /\ cancel_token'
            /\ state' = state
            /\ chan' = chan
            /\ writes' = writes]_vars
C13_Witness ==
    /\ cancel_token
    /\ state = St("Early")
    /\ chan = <<St("Early")>>
    /\ task["t1"].pc = "dr_recv"

\* C14: hangup calls cancel() only on a client dialog whose stored state is
\* Calling, Trying or Early, and calls bye() on a client dialog only when the
\* stored state is Confirmed.
C14_HangupByState ==
    \A t \in Tasks :
        /\ task[t].pc = "hg_cancel"
             => role = "Client" /\ state.k \in {"Calling", "Trying", "Early"}
        /\ task[t].pc = "hg_bye"
             => role = "Server" \/ is_confirmed(state)

\* C15: once the id of the dialog carries a non-empty to_tag, no step replaces
\* that tag.
C15_TagLearnedOnce == [][id_to_tag # "" => id_to_tag' = id_to_tag]_vars

\* do_invite of task t is driving the INVITE: the dialog is registered and
\* process_invite has not returned to the match on its result
DrivingInvite(t) ==
    \/ task[t].pc \in {"pi_send", "pi_recv", "pi_early", "pi_confirm", "pi_fail"}
    \/ /\ task[t].pc \in {"tr_send", "tr_store", "urt_id", "urt_to"}
       /\ task[t].ret \in {"pi_recv", "pi_early", "pi_confirm", "pi_fail",
                           "di_remove"}

\* C16: while the INVITE is driven the registry holds the provisional key; the
\* step that returns Ok leaves exactly the key process_invite returned, the
\* step that returns Err leaves no key, and so the registry stays.
C16_RegistryLifecycle ==
    /\ [](\A t \in Tasks : DrivingInvite(t) => dialogs = {Provisional})
    /\ [][\A t \in Tasks :
            (task[t].pc = "di_reinsert" /\ StepOf(t))
              => /\ dialogs' = {task[t].new_id}
                 /\ task'[t].pc = "idle"
                 /\ task'[t].result = "Ok"]_vars
    /\ [][\A t \in Tasks :
            (task[t].pc = "di_err" /\ StepOf(t))
              => /\ dialogs' = {}
                 /\ task'[t].pc = "idle"
                 /\ task'[t].result = "Err"]_vars
    /\ [](\A t \in Tasks :
            /\ task[t].result = "Ok"
                 => /\ Cardinality(dialogs) = 1
                    /\ id_to_tag # Provisional => ~Lookup(Provisional)
            /\ task[t].result = "Err" => dialogs = {})
C16_Witness ==
    /\ \E t \in Tasks : task[t].pc = "idle" /\ task[t].result = "Ok"
    /\ id_to_tag \in Tags
    /\ dialogs = {id_to_tag}
    /\ is_confirmed(state)

\* the 2xx of the INVITE has been handled by process_invite (the tag is
\* installed) and do_invite of task t has not returned
After2xx(t) ==
    /\ task[t].msg = OK
    /\ \/ task[t].pc \in {"pi_confirm", "di_remove", "di_reinsert"}
       \/ task[t].pc \in {"tr_send", "tr_store"} /\ task[t].ret = "di_remove"

\* C17: between the handling of the 2xx and the return of do_invite, the
\* registry has an entry under the full id of the dialog, so that an inbound
\* request carrying that id finds the dialog.
C17_InboundFindsDialog ==
    \A t \in Tasks : After2xx(t) => Lookup(id_to_tag)

\* the values of the headers hs, in order
Values(hs) == [i \in DOMAIN hs |-> hs[i].val]
Routes(hs) == Values(SelectSeq(hs, IsRoute))
RecordRoutes(hs) == Values(SelectSeq(hs, IsRecordRoute))

\* C18: no step of make_request, do_request, make_response, transition,
\* update_remote_tag or set_public_address changes the stored route set.
C18_RouteSetImmutable == [][route_set' = route_set]_vars
C18_Witness ==
    /\ Len(route_set) = 2
    /\ public_address = "pub1"
    /\ id_to_tag = "a"
    /\ task["t1"].pc = "dr_recv"
    /\ task["t1"].nmsg > 0
    /\ Routes(task["t1"].headers) = Values(route_set)

\* C19 (as stated): the Route headers of a request that make_request built on
\* a server dialog are the Record-Route headers of the initial INVITE, in the
\* same order.
C19_RoutesAreRecordRoutes ==
    \A t \in Tasks :
        (role = "Server" /\ task[t].pc = "built")
            => Routes(task[t].headers) = RecordRoutes(initial_request)

\* C19 (amended): the Route headers of such a request are the Route headers
\* the caller passed among the custom headers, followed by the Record-Route
\* headers of the initial INVITE in the same order.
C19_RoutesFollowCustom ==
    \A t \in Tasks :
        (role = "Server" /\ task[t].pc = "built")
            => Routes(task[t].headers)
                 = Routes(task[t].custom) \o RecordRoutes(initial_request)
C19_Witness ==
    /\ role = "Server"
    /\ task["t1"].pc = "built"
    /\ task["t1"].custom = <<>>
    /\ RecordRoutes(initial_request) = <<"p2", "p1">>
    /\ Routes(task["t1"].headers) = <<"p2", "p1">>

\* C20 (as stated): the Record-Route headers of a response built by
\* make_response are those of the request, in the same order, whatever
\* headers the caller supplies.
C20_RecordRouteEcho ==
    \A t \in Tasks :
        task[t].pc = "responded"
            => RecordRoutes(task[t].headers) = RecordRoutes(task[t].request)

\* C20 (amended): they are those of the request, in the same order, unless the
\* caller supplies a Record-Route header; then the response carries only the
\* last Record-Route header the caller supplied.
C20_RecordRouteEchoUnlessSupplied ==
    \A t \in Tasks :
        task[t].pc = "responded"
            => LET supplied == RecordRoutes(task[t].custom)
               IN  RecordRoutes(task[t].headers)
                     = IF supplied = <<>> THEN RecordRoutes(task[t].request)
                       ELSE <<supplied[Len(supplied)]>>
C20_Witness ==
    /\ task["t1"].pc = "responded"
    /\ task["t1"].custom = <<Hd("ContentType", "application/sdp")>>
    /\ task["t1"].status = Ringing
    /\ RecordRoutes(task["t1"].request) = <<"p2", "p1", "p2">>
    /\ RecordRoutes(task["t1"].headers) = <<"p2", "p1", "p2">>

\* ------------------------------------------------------- loose routing
\* a server dialog whose task sends mid-dialog requests with do_request; the
\* caller may add a Route header of its own, which then comes first
RouteCustoms ==
    {<<>>, <<Hd("Route", "p3;lr")>>, <<Hd("Route", "p3;transport=tcp;lr")>>,
     <<Hd("Route", "malformed")>>}
NextRoute ==
    \/ \E h \in RouteCustoms, b \in BOOLEAN :
         CallRequestWith("t1", "INFO", h, NoAddr, b)
    \/ increment_local_seq_add("t1")
    \/ increment_local_seq_load("t1")
    \/ make_request_build("t1")
    \/ do_request_send("t1")
    \/ do_request_receive("t1")
    \/ do_request_retry("t1")
    \/ do_request_break("t1")
    \/ transition_send("t1")
    \/ transition_store("t1")
SpecRoute == InitUas /\ [][NextRoute]_vars

\* the request of task t has been sent by do_request
Sent(t) == InDoRequest(t)

\* C21: a request that do_request has sent with a Route header has the
\* address resolved from its first Route URI (parameters other than
\* transport removed) as the destination of its transaction, and remote_uri
\* as its Request-URI
C21_LooseRoutingDestination ==
    \A t \in Tasks :
        (Sent(t) /\ HasRoute(task[t].headers)) =>
            /\ task[t].destination =
                 Resolved(retain_transport(route_header(task[t].headers).val))
            /\ task[t].uri = remote_uri

\* ---------------------------------------------------- the Via address
\* tasks build mid-dialog requests, with and without an address of their
\* own, while the public address of the dialog is set
ViaCustoms == {<<>>, <<Hd("Via", "custom")>>}
NextVia ==
    \/ \E a \in Addrs : do_invite_with_public_address(a)
    \/ \E t \in Tasks, a \in Addrs : set_public_address(t, a)
    \/ \E t \in Tasks, h \in ViaCustoms, a \in Addrs \cup {NoAddr} :
         CallRequestWith(t, "INFO", h, a, FALSE)
    \/ \E t \in Tasks : increment_local_seq_add(t)
    \/ \E t \in Tasks : increment_local_seq_load(t)
    \/ \E t \in Tasks : make_request_build(t)
    \/ \E t \in Tasks : SendDirect(t)
SpecVia == Init /\ [][NextVia]_vars

\* the Via that make_request pushed: the one after the caller's headers
IsVia(h) == h.kind = "Via"
ViaOf(hs) == SelectSeq(hs, IsVia)[Len(SelectSeq(hs, IsVia))].val

\* C22: the Via of a request that make_request builds carries the caller's
\* address when one is passed, else the stored public address when one is
\* set, else the endpoint default; a stored public address is never unset,
\* so every later request built without an address of its own uses it
C22_ViaAddressPreference ==
    [][/\ \A t \in Tasks :
            (task[t].pc = "mr_build" /\ task'[t].pc = "built") =>
                ViaOf(task'[t].headers) =
                    IF task[t].addr # NoAddr THEN task[t].addr
                    ELSE IF public_address # NoAddr THEN public_address
                    ELSE "endpoint"
       /\ public_address # NoAddr => public_address' # NoAddr]_vars
\* a request built without an address after the public address was changed
\* from the one do_invite_with_public_address stored
C22_Witness ==
    \E t \in Tasks :
        /\ task[t].pc = "built"
        /\ task[t].addr = NoAddr
        /\ public_address = "pub2"
        /\ ViaOf(task[t].headers) = "pub2"
        /\ task[t].custom # <<>>

\* the dialog as DialogInner::new left it: no call has been made on it
JustCreated == ops = 0 /\ \A t \in Tasks : task[t] = NoLocals

\* C23: a dialog that was just created has the persistent state Calling when
\* it is a client dialog and Trying when it is a server dialog created from
\* an initial INVITE
C23_InitialState ==
    JustCreated =>
        state = IF role = "Client" THEN St("Calling") ELSE St("Trying")

\* ------------------------------------------------- inbound CSeq tracking
\* the peer's mid-dialog requests reach a server dialog, one handler at a
\* time
NextInbound ==
    \/ \E m \in InboundMethods, c \in InboundCSeqs : handle_inbound("t1", m, c)
    \/ increment_remote_seq_add("t1")
    \/ increment_remote_seq_load("t1")
    \/ inbound_reply("t1")
SpecInbound == InitServer /\ [][NextInbound]_vars

Max32 == <<Half - 1, Half - 1>>
\* HostWithPort::from(Self::get_first_non_loopback_interface()?)
LocalAddr == Public("local", "5060")

\* the REGISTER that register builds from the registration r: first_addr is
\* the public address when there is one, else the local interface; the
\* Contact is the cached one, else one made from the same address
RegisterRequest(r) ==
    LET first_addr == IF r.public_address.some THEN r.public_address
                      ELSE LocalAddr
    IN  [cseq |-> r.last_seq,
         contact |-> IF r.contact.some THEN r.contact
                     ELSE Contact(first_addr.ip, first_addr.port, NoExpires),
         via |-> first_addr,
         auth |-> FALSE]

\* self.last_seq += 1; the request is built (the URI of the server, the
\* local interface, the DNS lookup and get_via may each fail) and sent with
\* tx.send().await?; let mut auth_sent = false. At u32::MAX the addition
\* panics in a build with overflow checks and wraps in one without
register ==
    /\ call.pc = "idle"
    /\ ops < MaxRegisters
    /\ ops' = ops + 1
    /\ \E wraps, sent \in BOOLEAN :
         IF registration.last_seq = Max32 /\ ~wraps
           THEN /\ call' = [NoCall EXCEPT !.result = "Panic"]
                /\ UNCHANGED <<registration, registers>>
           ELSE LET r == [registration EXCEPT !.last_seq = wrapping_inc(@)]
                IN  /\ registration' = r
                    /\ IF sent
                         THEN /\ call' = [NoCall EXCEPT
                                            !.pc = "rg_recv",
                                            !.original = RegisterRequest(r),
                                            !.nsent = 1]
                              /\ registers' = Append(registers, RegisterRequest(r))
                         ELSE /\ call' = [NoCall EXCEPT !.result = "Err"]
                              /\ registers' = registers
    /\ UNCHANGED <<lk, core, task, reg, dlg>>

\* received.value().parse() / value.value().parse::<u16>()
ParsesIp(x) == x \in {"R1", "R2"}
ParsesPort(x) == x \in {"P1", "P2"}

\* one Via of a response is examined; the address is stored as soon as the
\* Via carries a received parameter
ScanViaReceivedOnly(v, r) ==
    IF v.typed /\ ParsesIp(v.received)
         /\ r.public_address # Public(v.received, v.rport)
      THEN [r EXCEPT !.public_address = Public(v.received, v.rport),
                     !.contact = NoContact]
      ELSE r
\* one Via of a response is examined: if let Ok(typed_via) = via.typed(),
\* both received and rport found and parsed, and the pair is not the stored
\* one, then public_address = Some(pair) and contact = None
ScanVia(v, r) ==
    IF v.typed /\ ParsesIp(v.received) /\ ParsesPort(v.rport)
         /\ r.public_address # Public(v.received, v.rport)
      THEN [r EXCEPT !.public_address = Public(v.received, v.rport),
                     !.contact = NoContact]
      ELSE r
\* for (idx, via) in via_headers.iter().enumerate() { ... }
RECURSIVE ScanVias(_, _)
ScanVias(vs, r) ==
    IF vs = <<>> THEN r ELSE ScanVias(Tail(vs), ScanVia(Head(vs), r))

\* the Via headers a registrar or a proxy may put in a response
Via(ty, rc, rp) == [typed |-> ty, received |-> rc, rport |-> rp]
ViaParams ==
    {Via(TRUE, "-", "-"), Via(TRUE, "R1", "-"), Via(TRUE, "-", "P1"),
     Via(TRUE, "R1", "P1"), Via(TRUE, "R2", "P2"), Via(TRUE, "bad", "P1"),
     Via(FALSE, "R1", "P1")}
ResponseVias ==
    {<<v>> : v \in ViaParams}
      \cup {<<v, w>> : v, w \in {Via(TRUE, "R1", "P1"), Via(TRUE, "R2", "P2")}}
EchoedExpires == {NoExpires, 3600}
RegisterMessages ==
    {[status |-> st, vias |-> <<Via(TRUE, "-", "-")>>, expires |-> NoExpires] :
        st \in {Trying, BusyHere, NonResponse, StreamEnd}}
      \cup {[status |-> ProxyAuthenticationRequired,
              vias |-> <<Via(TRUE, "R1", "P1")>>, expires |-> NoExpires]}
      \cup {[status |-> Unauthorized, vias |-> vs, expires |-> NoExpires] :
              vs \in ResponseVias}
      \cup {[status |-> OK, vias |-> vs, expires |-> e] :
              vs \in ResponseVias, e \in EchoedExpires}

\* return Ok(resp) / return Err(..) of the call c
RegisterReturn(c, r) == [c EXCEPT !.pc = "idle", !.result = r]

\* the end of the transaction is reported as a success
transaction_terminated_ok(c) == RegisterReturn(c, "Ok")
\* return Err(crate::Error::DialogError("registration transaction is already
\* terminated", ..)) after the loop
transaction_terminated(c) == RegisterReturn(c, "Err")

\* a credential is assumed
HasCredentialAssumed(r) == TRUE
\* if let Some(cred) = &self.credential
HasCredential(r) == r.credential

\* while let Some(msg) = tx.receive().await { match msg { ... } } and the
\* Err after the loop
register_receive ==
    /\ call.pc = "rg_recv"
    /\ \E m \in RegisterMessages :
         /\ call.nmsg >= MaxMsgs => m.status = StreamEnd
         /\ LET c == [call EXCEPT !.resp = m, !.nmsg = @ + 1]
                scanned == ScanVias(m.vias, registration)
            IN  CASE m.status \in {StreamEnd, NonResponse} ->
                       /\ call' = transaction_terminated(c)
                       /\ registration' = registration
                  [] m.status = Trying ->
                       /\ call' = c
                       /\ registration' = registration
                  [] m.status \in {Unauthorized, ProxyAuthenticationRequired} ->
                       /\ registration' = scanned
                       /\ call' = IF c.auth_sent \/ ~HasCredential(registration)
                                    THEN RegisterReturn(c, "Ok")
                                    ELSE [c EXCEPT !.pc = "rg_auth"]
                  [] m.status = OK ->
                       /\ registration' = scanned
                       /\ call' = RegisterReturn(c, "Ok")
                  [] OTHER ->
                       /\ call' = RegisterReturn(c, "Ok")
                       /\ registration' = registration
    /\ UNCHANGED <<lk, core, task, ops, reg, dlg, registers>>

\* the copy of the challenged request that handle_client_authenticate makes:
\* the new CSeq and the Authorization header
Authenticated(rq, new_seq) == [rq EXCEPT !.cseq = new_seq, !.auth = TRUE]

\* tx.original.headers.unique_push(new_contact.into()) when a public address
\* is stored
WithPublicContact(rq, r) ==
    IF r.public_address.some
      THEN [rq EXCEPT !.contact = Contact(r.public_address.ip,
                                          r.public_address.port, NoExpires)]
      ELSE rq

\* auth_sent stays as it was
AuthSentForgotten(old) == old
\* auth_sent = true
AuthSentAfterRetry(old) == TRUE

\* if let Some(cred) = &self.credential { self.last_seq += 1; ...;
\* tx = handle_client_authenticate(self.last_seq, tx, resp, cred).await?;
\* tx.send().await?; auth_sent = true; continue; }
register_retry ==
    /\ call.pc = "rg_auth"
    /\ \E wraps, sent \in BOOLEAN :
         IF registration.last_seq = Max32 /\ ~wraps
           THEN /\ call' = RegisterReturn(call, "Panic")
                /\ UNCHANGED <<registration, registers>>
           ELSE LET r == [registration EXCEPT !.last_seq = wrapping_inc(@)]
                    rq == Authenticated(WithPublicContact(call.original, r),
                                        r.last_seq)
                IN  /\ registration' = r
                    /\ IF sent
                         THEN /\ call' = [call EXCEPT
                                            !.pc = "rg_recv",
                                            !.original = rq,
                                            !.nsent = @ + 1,
                                            !.auth_sent = AuthSentAfterRetry(@)]
                              /\ registers' = Append(registers, rq)
                         ELSE /\ call' = RegisterReturn(call, "Err")
                              /\ registers' = registers
    /\ UNCHANGED <<lk, core, task, ops, reg, dlg>>

\* self.public_address
discovered_public_address(r) == r.public_address

\* self.contact.as_ref().and_then(|c| c.expires())
\*     .map(|e| e.seconds().unwrap_or(50)).unwrap_or(50)
expires(r) ==
    IF r.contact.some /\ r.contact.expires # NoExpires
      THEN r.contact.expires ELSE 50

\* a Registration used by one task: last_seq is any 32-bit value, the caller
\* may have stored a Contact in the public field contact
RegisterCSeqs == {u32(initial_cseq), <<Half - 1, Half - 2>>}
CachedContacts == {NoContact, Contact("local", "5060", 60)}
InitRegister ==
    /\ state = St("Calling")
    /\ local_seq = u32(initial_cseq)
    /\ credential = FALSE
    /\ chan = <<>>
    /\ chanClosed = FALSE
    /\ writes = <<>>
    /\ seqLog = <<>>
    /\ task = [t \in Tasks |-> NoLocals]
    /\ ops = 0
    /\ dialogs = {}
    /\ id_to_tag = ""
    /\ to_tag = ""
    /\ seen = {"unread"}
    /\ role = "Client"
    /\ cancel_token = FALSE
    /\ route_set = <<>>
    /\ public_address = NoAddr
    /\ initial_request = ClientInvite
    /\ local_contact = TRUE
    /\ remote_seq = u32(initial_cseq)
    /\ \E seq \in RegisterCSeqs, cred \in BOOLEAN, c \in CachedContacts :
         registration = [Registration_new(seq, cred) EXCEPT !.contact = c]
    /\ call = NoCall
    /\ registers = <<>>
    /\ owner = [l \in Locks |-> NoOwner]
    /\ prog = [t \in Tasks |-> <<>>]
NextRegister ==
    \/ register
    \/ register_receive
    \/ register_retry
SpecRegister == InitRegister /\ [][NextRegister]_vars

\* the running register call has just taken a message from tx.receive()
Received == call.pc = "rg_recv" /\ call'.nmsg = call.nmsg + 1

\* C25: one register call sends at most two REGISTER requests; a 401/407
\* received after the authenticated retry is returned as the result; every
\* message other than a 100, and the end of the transaction, ends the call,
\* except the first 401/407 of a registration with a credential, which is
\* followed by the one retry
C25_RegisterDoesNotLoop ==
    [][/\ call'.nsent <= 2
       /\ Received =>
            /\ (call'.resp.status \in Challenges /\ call.auth_sent) =>
                 /\ call'.pc = "idle"
                 /\ call'.result = "Ok"
                 /\ registers' = registers
            /\ call'.resp.status # Trying =>
                 \/ call'.pc = "idle"
                 \/ /\ call'.resp.status \in Challenges
                    /\ ~call.auth_sent
                    /\ registration.credential
                    /\ call'.pc = "rg_auth"
       /\ call.pc = "rg_auth" =>
            \/ call'.pc = "idle"
            \/ call'.pc = "rg_recv" /\ call'.auth_sent /\ call'.nsent = 2]_vars
\* a second 401/407 has been returned after the retry
C25_Witness ==
    /\ call.pc = "idle"
    /\ call.result = "Ok"
    /\ call.resp.status \in Challenges
    /\ call.nsent = 2

\* a Via that carries a received address and an rport value
Qualifies(v) == v.typed /\ ParsesIp(v.received) /\ ParsesPort(v.rport)
\* the address R:P that the Via headers vs of a response announce
Announced(vs) ==
    LET q == SelectSeq(vs, Qualifies)
    IN  Public(q[Len(q)].received, q[Len(q)].rport)
\* the authenticated retry of the running register call is being sent
RetrySent == call.pc = "rg_auth" /\ call'.pc = "rg_recv"

\* C26: when a 401/407 whose Via carries received=R and rport=P is answered
\* with the authenticated retry, the Contact of the retry has host and port
\* R:P and its Via advertises R:P
C26_RetryAdvertisesPublicAddress ==
    [][(RetrySent /\ SelectSeq(call.resp.vias, Qualifies) # <<>>) =>
          /\ call'.original.contact.ip = Announced(call.resp.vias).ip
          /\ call'.original.contact.port = Announced(call.resp.vias).port
          /\ call'.original.via = Announced(call.resp.vias)]_vars

\* the running register call has just taken a 401/407 or a 200
ReceivedScanned ==
    Received /\ call'.resp.status \in Challenges \cup {OK}

\* C27: public_address changes only when register handles a 401/407 or a
\* 200 whose Via carries both a received address and an rport value; it is
\* then the announced pair, and when that pair differs from the stored one
\* the cached Contact is cleared, so that discovered_public_address()
\* returns the pair after a 200; a response none of whose Via headers
\* carries both leaves public_address and the cached Contact as they were
C27_PublicAddressUpdate ==
    [][/\ registration'.public_address # registration.public_address =>
            /\ ReceivedScanned
            /\ SelectSeq(call'.resp.vias, Qualifies) # <<>>
       /\ ReceivedScanned =>
            IF SelectSeq(call'.resp.vias, Qualifies) = <<>>
              THEN /\ registration'.public_address = registration.public_address
                   /\ registration'.contact = registration.contact
              ELSE /\ discovered_public_address(registration')
                        = Announced(call'.resp.vias)
                   /\ Announced(call'.resp.vias) # registration.public_address
                        => registration'.contact = NoContact]_vars
\* a 200 has replaced the stored address and cleared a cached Contact
C27_Witness ==
    /\ call.pc = "idle"
    /\ call.result = "Ok"
    /\ call.resp.status = OK
    /\ call.resp.vias = <<Via(TRUE, "R2", "P2")>>
    /\ Len(registers) = 1
    /\ registers[1].contact = Contact("local", "5060", 60)
    /\ registration.contact = NoContact
    /\ discovered_public_address(registration) = Public("R2", "P2")

\* register has returned Ok with a 200
Registered == call.pc = "idle" /\ call.result = "Ok" /\ call.resp.status = OK

\* C28: after register has returned a 200 whose echoed Contact carries
\* expires=E, expires() is E; it is 50 only when no expires was echoed
C28_ExpiresFromAnswer ==
    Registered =>
        expires(registration) =
            IF call.resp.expires # NoExpires THEN call.resp.expires ELSE 50

\* C29: every REGISTER sent by a Registration carries a CSeq greater than
\* that of every REGISTER sent before it, and the CSeq of an authenticated
\* retry is the CSeq of its initial request plus 1
C29_RegisterCSeqIncreases ==
    /\ \A i, j \in DOMAIN registers :
           i < j => u32_lt(registers[i].cseq, registers[j].cseq)
    /\ call.nsent = 2 =>
           LET n == Len(registers)
           IN  /\ registers[n - 1].cseq # Max32
               /\ registers[n].cseq = wrapping_inc(registers[n - 1].cseq)

\* task t takes the state lock: let mut old_state = self.state.lock()
AcquiresState(t) == task[t].pc = "tr_store" /\ task'[t] # task[t]

\* C30: no task takes the state lock of the dialog while it holds the id
\* lock, the transition to Early on a 180/183 included
C30_StateNotLockedUnderId ==
    [][\A t \in Tasks : AcquiresState(t) => "id" \notin task[t].locks]_vars

\* ------------------------------------------------- locks and suspension
\* one task sets the call up with do_invite and then sends mid-dialog
\* requests with do_request
NextSuspend ==
    \/ CallDoInvite("t1")
    \/ do_invite_insert("t1")
    \/ process_invite_send("t1")
    \/ process_invite_receive("t1")
    \/ process_invite_early("t1")
    \/ process_invite_confirm("t1")
    \/ process_invite_fail("t1")
    \/ update_remote_tag_id("t1")
    \/ update_remote_tag_to("t1")
    \/ do_invite_remove("t1")
    \/ do_invite_reinsert("t1")
    \/ do_invite_remove_err("t1")
    \/ CallRequest("t1", "BYE")
    \/ increment_local_seq_add("t1")
    \/ increment_local_seq_load("t1")
    \/ make_request_build("t1")
    \/ do_request_send("t1")
    \/ do_request_receive("t1")
    \/ do_request_retry("t1")
    \/ do_request_break("t1")
    \/ transition_send("t1")
    \/ transition_store("t1")
SpecSuspend == Init /\ [][NextSuspend]_vars

\* task t is at an await of do_request or do_invite: the lookup and tx.send
\* ("built", "dr_retry", "pi_send") or tx.receive ("dr_recv", "pi_recv")
Suspended(t) == task[t].pc \in {"built", "dr_recv", "dr_retry", "pi_send", "pi_recv"}

\* C31: a task that is suspended in do_request or do_invite holds no lock of
\* the dialog; register, on a Registration that has no lock, holds none
C31_NoLockAcrossSuspension ==
    \A t \in Tasks : Suspended(t) => task[t].locks = {}
\* do_request is back in tx.receive() after the transition to Early, for
\* which it had taken the id lock
C31_Witness ==
    /\ task["t1"].pc = "dr_recv"
    /\ task["t1"].msg \in {Ringing, SessionProgress}
    /\ state = St("Early")

\* C32: a 401/407 received by register on a Registration without credential
\* ends the call with Ok and that response; no further REGISTER is sent and
\* last_seq stays the CSeq of the initial request
C32_ChallengeWithoutCredential ==
    [][(Received /\ call'.resp.status \in Challenges /\ ~registration.credential) =>
          /\ call'.pc = "idle"
          /\ call'.result = "Ok"
          /\ call'.nsent = 1
          /\ registers' = registers
          /\ registration'.last_seq = registration.last_seq
          /\ registration'.last_seq = call.original.cseq]_vars
\* a Registration without credential has returned the 401/407 that answered
\* its only REGISTER
C32_Witness ==
    /\ call.pc = "idle"
    /\ call.result = "Ok"
    /\ call.resp.status \in Challenges
    /\ ~registration.credential
    /\ call.nsent = 1
    /\ Len(registers) >= 1
    /\ registration.last_seq = registers[Len(registers)].cseq

\* C33: every persistent state that is in the state channel, where an
\* observer can receive it, has been stored as the state of the dialog
C33_ReceivedEventIsStored ==
    \A i \in DOMAIN Published : \E j \in DOMAIN writes : writes[j] = Published[i]

\* C35: the key of every entry of the registry is the current id of the
\* dialog (the registry lock is taken and released within one step, so it
\* is held in no state)
C35_RegistryKeyIsDialogId ==
    \A g \in dialogs : g = id_to_tag

\* the entry of the dialog leaves the registry and no task is about to
\* insert it again
LeavesRegistry ==
    /\ dialogs # {}
    /\ dialogs' = {}
    /\ \A t \in Tasks : task'[t].pc # "di_reinsert"

\* C36: when the entry of the dialog leaves the registry for good, the
\* cancellation token of the dialog has been triggered
C36_RemovalCancels == [][LeavesRegistry => cancel_token']_vars

\* ------------------------------------------- update_remote_tag observed
\* one task installs the tag of a response while another task builds
\* mid-dialog requests on the same dialog
NextObserve ==
    \/ \E g \in Tags : CallUpdateRemoteTag("t1", g)
    \/ update_remote_tag_id("t1")
    \/ update_remote_tag_to("t1")
    \/ \E m \in Methods : CallRequest("t2", m)
    \/ increment_local_seq_add("t2")
    \/ increment_local_seq_load("t2")
    \/ make_request_build("t2")
    \/ SendDirect("t2")
SpecObserve == Init /\ [][NextObserve]_vars

IsTo(h) == h.kind = "To"
\* the tag of the To header of the headers hs
ToTagOf(hs) == Head(SelectSeq(hs, IsTo)).val
\* make_request of task t returns the request it has built
Builds(t) == task[t].pc = "mr_build" /\ task'[t].pc = "built"
\* update_remote_tag of task t returns Ok
TagUpdated(t) == task[t].pc = "urt_to" /\ task'[t].pc # "urt_to"

\* C37: when update_remote_tag(g) returns Ok the to_tag of the id and the
\* tag of the stored To header are both g, and a request that make_request
\* builds carries in its To header the to_tag that the id has at that moment
C37_UpdateRemoteTagAtomic ==
    [][\A t \in Tasks :
          /\ TagUpdated(t) => id_to_tag' = task[t].tag /\ to_tag' = task[t].tag
          /\ Builds(t) => ToTagOf(task'[t].headers) = id_to_tag]_vars

\* task t handles a message that tx.receive() of do_request has returned
Handles(t) == task[t].pc = "dr_recv" /\ StepOf(t)

\* C38: do_request calls transition only for a 180/183 and for a 401/407
\* that it does not answer with a retry; a 100 leaves it waiting for the
\* next message; the step that returns a final response to the caller
\* leaves the state and the state channel as they were; state and channel
\* change only inside transition
C38_DoRequestFrame ==
    [][/\ \A t \in Tasks : Handles(t) =>
            /\ state' = state /\ chan' = chan /\ writes' = writes
            /\ task'[t].pc = "tr_send" =>
                 \/ task'[t].msg \in {Ringing, SessionProgress}
                 \/ /\ task'[t].msg \in Challenges
                    /\ task[t].auth_sent \/ ~credential
            /\ task'[t].msg = Trying => task'[t].pc = "dr_recv"
            /\ task'[t].result = "OkSome" => task'[t].pc = "idle"
       /\ (state' # state \/ chan' # chan) =>
            \E t \in Tasks : InTransition(t)]_vars
\* do_request has returned a final response after a 180/183: the state is
\* the Early that the provisional response has set
C38_Witness ==
    /\ task["t1"].result = "OkSome"
    /\ state = St("Early")
    /\ Len(chan) = 1
    /\ writes = <<St("Early")>>

\* ------------------------------------------------ the range of local_seq
\* values of the whole range of generate_random_cseq(), the last ones
\* included
RandomCSeqsToMax == RandomCSeqs \cup {<<Half - 1, Half - 2>>, Max32}
\* DialogInner::new(TransactionRole::Server, ...) with local_seq anywhere in
\* the range of a u32
InitAnySeq ==
    /\ state = St("Calling")
    /\ local_seq \in RandomCSeqsToMax
    /\ credential \in BOOLEAN
    /\ chan = <<>>
    /\ chanClosed = FALSE
    /\ writes = <<>>
    /\ seqLog = <<>>
    /\ task = [t \in Tasks |-> NoLocals]
    /\ ops = 0
    /\ dialogs = {}
    /\ id_to_tag = "local"
    /\ to_tag = "peer"
    /\ seen = {"unread"}
    /\ role = "Server"
    /\ cancel_token = FALSE
    /\ initial_request = ServerInvite(<<>>)
    /\ route_set = RouteSetOf(initial_request)
    /\ public_address = NoAddr
    /\ local_contact = TRUE
    /\ remote_seq = u32(initial_cseq)
    /\ registration = Registration_new(u32(initial_cseq), credential)
    /\ call = NoCall
    /\ registers = <<>>
    /\ owner = [l \in Locks |-> NoOwner]
    /\ prog = [t \in Tasks |-> <<>>]
\* the user of the dialog builds one mid-dialog request after the other
NextAnySeq ==
    \/ \E m \in Methods : CallRequest("t1", m)
    \/ increment_local_seq_add("t1")
    \/ increment_local_seq_load("t1")
    \/ make_request_build("t1")
    \/ SendDirect("t1")
SpecAnySeq == InitAnySeq /\ [][NextAnySeq]_vars

\* C39: local_seq never decreases, and the value increment_local_seq
\* returns is greater than the value local_seq had before the call
C39_NoCSeqWrap ==
    [][/\ local_seq' = local_seq \/ u32_lt(local_seq, local_seq')
       /\ \A t \in Tasks :
            (task[t].pc = "inc_add" /\ task'[t].pc = "inc_load") =>
                u32_lt(local_seq, local_seq')]_vars

\* the REGISTER transaction has ended without a final response
EndedWithoutFinal == call.resp.status \in {StreamEnd, NonResponse}

\* C40: when tx.receive() of register yields no further message or a
\* message that is not a response, register returns Err, with
\* public_address and the cached Contact as they were; register returns Ok
\* only with a final response
C40_NoFinalResponseIsError ==
    [][/\ (Received /\ call'.resp.status \in {StreamEnd, NonResponse}) =>
            /\ call'.pc = "idle"
            /\ call'.result = "Err"
            /\ registration'.public_address = registration.public_address
            /\ registration'.contact = registration.contact
       /\ (call'.pc = "idle" /\ call'.result = "Ok") =>
            call'.resp.status \in Responses \ {Trying}]_vars
\* the transaction has ended after the retry; the address that the 401 had
\* announced is still stored
C40_Witness ==
    /\ call.pc = "idle"
    /\ call.result = "Err"
    /\ EndedWithoutFinal
    /\ call.nsent = 2
    /\ discovered_public_address(registration) = Public("R2", "P2")

\* ------------------------------------------- the locks of DialogInner
\* The calls on one dialog, reduced to the Mutex guards they take and drop,
\* in the order of the code. A guard that is a temporary is dropped at the
\* end of its statement, a guard bound by let at the end of its block.
Acq(l) == [a |-> "acq", l |-> l]
Rel(l) == [a |-> "rel", l |-> l]

\* transition reads the id under the state lock
transition_locks_reading_id ==
    <<Acq("state"), Acq("id"), Rel("id"), Rel("state")>>
\* transition(persistent state): let mut old_state = self.state.lock()
\* .unwrap(); *old_state = state; Ok(())
transition_locks == <<Acq("state"), Rel("state")>>
\* update_remote_tag: four statements with one guard each; the right-hand
\* side of the assignment to *self.to.lock() is evaluated before the lock
update_remote_tag_locks ==
    <<Acq("id"), Rel("id"), Acq("to"), Rel("to"), Acq("to"), Rel("to"),
      Acq("to"), Rel("to")>>
\* set_public_address: *self.public_address.lock().unwrap() = Some(addr)
set_public_address_locks == <<Acq("public_address"), Rel("public_address")>>
\* make_request: public_address inside or_else when addr is None, id and to
\* in one push each, route_set bound by let until the function returns
make_request_locks(addr) ==
    (IF addr = NoAddr
       THEN <<Acq("public_address"), Rel("public_address")>> ELSE <<>>)
      \o <<Acq("id"), Rel("id"), Acq("to"), Rel("to"),
           Acq("route_set"), Rel("route_set")>>
\* make_response: self.id.lock().unwrap().to_tag for a To without tag in a
\* response other than 100
make_response_locks(tagged) ==
    IF tagged THEN <<>> ELSE <<Acq("id"), Rel("id")>>
\* Dialog::id: d.inner.id.lock().unwrap().clone()
id_locks == <<Acq("id"), Rel("id")>>
\* do_request, one message of the loop:
\*   ringing  the id guard is a temporary of the statement that calls
\*            transition, which takes the state lock
\*   retry    let id = self.id.lock().unwrap().clone(), then the retry
\*   failed   the same let, then transition(Terminated(..))
\*   other    100, a final response, the end of the stream
LoopMessages == {"ringing", "retry", "failed", "other"}
message_locks(m) ==
    CASE m = "ringing" ->
           <<Acq("id")>> \o transition_locks \o <<Rel("id")>>
      [] m = "retry" -> <<Acq("id"), Rel("id")>>
      [] m = "failed" -> <<Acq("id"), Rel("id")>> \o transition_locks
      [] OTHER -> <<>>
\* do_request: the messages ms handled one after the other
RECURSIVE do_request_locks(_)
do_request_locks(ms) ==
    IF ms = <<>> THEN <<>>
    ELSE message_locks(Head(ms)) \o do_request_locks(Tail(ms))

\* the calls a task may make on the dialog
Calls ==
    {transition_locks, update_remote_tag_locks, set_public_address_locks,
     id_locks}
      \cup {make_request_locks(a) : a \in {NoAddr, "pub1"}}
      \cup {make_response_locks(g) : g \in BOOLEAN}
      \cup {do_request_locks(ms) : ms \in [1..2 -> LoopMessages]}

\* the guards task t holds
Held(t) == {l \in Locks : owner[l] = t}
\* task t is inside a call
InCall(t) == prog[t] # <<>>
\* task t is blocked in lock() on a Mutex that is held
Waiting(t) ==
    /\ InCall(t)
    /\ Head(prog[t]).a = "acq"
    /\ owner[Head(prog[t]).l] # NoOwner

\* a task starts the call with the steps p
StartCall(t, p) ==
    /\ ~InCall(t)
    /\ ops < MaxOps
    /\ ops' = ops + 1
    /\ prog' = [prog EXCEPT ![t] = p]
    /\ UNCHANGED <<owner, core, task, reg, dlg, rgn>>
\* Mutex::lock returns the guard once the Mutex is free
Acquire(t) ==
    /\ InCall(t)
    /\ Head(prog[t]).a = "acq"
    /\ owner[Head(prog[t]).l] = NoOwner
    /\ owner' = [owner EXCEPT ![Head(prog[t]).l] = t]
    /\ prog' = [prog EXCEPT ![t] = Tail(@)]
    /\ UNCHANGED <<core, task, ops, reg, dlg, rgn>>
\* the guard is dropped
Release(t) ==
    /\ InCall(t)
    /\ Head(prog[t]).a = "rel"
    /\ owner' = [owner EXCEPT ![Head(prog[t]).l] = NoOwner]
    /\ prog' = [prog EXCEPT ![t] = Tail(@)]
    /\ UNCHANGED <<core, task, ops, reg, dlg, rgn>>

\* a thread that can take a step takes one
Runs(t) == Acquire(t) \/ Release(t)
NextLocks ==
    \/ \E t \in Tasks, p \in Calls : StartCall(t, p)
    \/ \E t \in Tasks : Acquire(t)
    \/ \E t \in Tasks : Release(t)
SpecLocks ==
    Init /\ [][NextLocks]_vars /\ \A t \in Tasks : WF_vars(Runs(t))

\* the tasks of G wait for guards that tasks of G hold
CircularWait(G) ==
    /\ G # {}
    /\ \A t \in G : Waiting(t) /\ owner[Head(prog[t]).l] \in G

\* C34: no set of tasks waits for each other's guards, and a task that holds
\* a guard comes to hold none
C34_DeadlockFreedom ==
    /\ [](\A G \in SUBSET Tasks : ~CircularWait(G))
    /\ \A t \in Tasks : (Held(t) # {}) ~> (Held(t) = {})
\* do_request holds the id guard of its ringing arm and waits in transition
\* for the state lock, which a transition of the other task holds
C34_Witness ==
    /\ Held("t1") = {"id"}
    /\ Held("t2") = {"state"}
    /\ Waiting("t1")
    /\ Head(prog["t1"]).l = "state"

====
